---- MODULE Spec2Model ----
(***************************************************************************)
(* QuillPilot: the streaming generation client (aiService), the provider   *)
(* and model resolution of the editor (BlogEditor.handleAIGenerate,        *)
(* preferencesService), the AI Settings view (AISettings), the durable     *)
(* record of a post ('save-blog-post' / 'load-blog-posts' of electron.js)  *)
(* and the stores of the application (App: initializeApp, saveBlogPost,    *)
(* deleteBlogPost).                                                        *)
(*                                                                         *)
(* Text is modelled as a sequence of one-character strings, so that        *)
(* split('\n'), startsWith('data: '), slice(6), includes(keyword) and      *)
(* JSON.parse act on characters and a chunk boundary may fall anywhere.    *)
(***************************************************************************)
EXTENDS Integers, Sequences, FiniteSets, TLC

VARIABLES
    \* ---- one call of generateContentStream / generateBlogPostStream ----
    kind,        \* "content" | "blog": which of the two methods is running
    throws,      \* the callbacks (of the caller) that throw when invoked
    frames,      \* the lines the backend writes on the transport, in order
    pos,         \* number of characters of the response body already read
    pc,          \* "fetching" | "reading" | "settled"
    acquired,    \* response.body.getReader() has been called
    locked,      \* the reader still holds its lock on the body
    events,      \* the callback invocations so far, in order
    result,      \* "pending" | "resolved" | "rejected": the returned promise
    exitPath,    \* how the call left its read loop / try block
    abandoned,   \* the caller has left the editor while the call was running
    filteredRun, \* history: the read loop run on the chunks read so far with
                 \* their 'data: ' lines of non-JSON payload taken out
    \* ---- provider / model resolution of the editor ----
    selectedAiProvider,  \* BlogEditor state
    aiStatus,            \* App state: [ollama_available, openai_available]
    aiModels,            \* App state: [ollama |-> list, openai |-> list]
    localStorage,        \* preferred_<provider>_model entries ("" = absent)
    gen,                 \* the last handleAIGenerate: provider, model, request, alert
    \* ---- the AI Settings view (AISettings) ----
    settingsMounted,     \* the AISettings component is mounted
    selectedModel,       \* component state: selectedOllamaModel / selectedOpenAIModel
    chosen,              \* history: the model the user last chose, per provider
    \* ---- the stores of the blog posts ----
    files,        \* the durable store: ~/QuillPilot/blog-posts, name -> text
    loaded,       \* the answer of the last 'load-blog-posts' (codec runs)
    saved,        \* history: name -> the post last written under that name
    hasElectron,  \* window.electronAPI exists (desktop build)
    blogPosts,    \* App state: the in-memory list
    lsPosts,      \* the ephemeral store: localStorage['quillpilot-posts']
    currentPost,  \* App state: the post handed to the editor, or null
    currentView,  \* App state: "dashboard" | "editor" | "settings"
    editorPost,   \* BlogEditor state currentPost; null while no editor is mounted
    now,          \* the clock read by Date.now() and new Date()
    saving,       \* the saveBlogPost calls suspended at their await
    init,         \* the running initializeApp: position, closure, load outcome
    inits,        \* number of initializeApp runs started so far
    lastOp,       \* history: the operation that finished last
    deleted,      \* history: the ids deleted and not given to saveBlogPost since
    contentDir,   \* the directory ~/QuillPilot/blog-posts exists
    call,         \* one blocking generation: method, transport answer, outcome
    timer,        \* the auto-save timeout of the mounted editor
    autosaves     \* history: saves issued by the timer since the last edit

streamVars == <<kind, throws, frames, pos, pc, acquired, locked, events, result,
                exitPath, abandoned, filteredRun>>
resolveVars == <<selectedAiProvider, aiStatus, aiModels, localStorage, gen>>
settingsVars == <<settingsMounted, selectedModel, chosen>>
storeVars == <<files, loaded, saved, hasElectron, blogPosts, lsPosts, currentPost,
               currentView, editorPost, now, saving, init, inits, lastOp, deleted,
               contentDir, call, timer, autosaves>>
vars == <<kind, throws, frames, pos, pc, acquired, locked, events, result,
          exitPath, abandoned, filteredRun, selectedAiProvider, aiStatus,
          aiModels, localStorage, gen, settingsMounted, selectedModel, chosen,
          files, loaded, saved, hasElectron, blogPosts, lsPosts, currentPost,
          currentView, editorPost, now, saving, init, inits, lastOp, deleted,
          contentDir, call, timer, autosaves>>

\* The AI Settings view before it is first opened
NoSelection == [ollama |-> "", openai |-> ""]
SettingsIdle ==
    /\ settingsMounted = FALSE
    /\ selectedModel = NoSelection
    /\ chosen = NoSelection

\* The stores before the application has touched them
NoOp == [op |-> "none", id |-> <<>>, outcome |-> "none"]
NoLoad == [done |-> FALSE, posts |-> <<>>]
NoValue == [t |-> "null", v |-> <<>>]
AbsentItem == [kind |-> "absent", posts |-> <<>>]
NoCall == [pc |-> "idle", method |-> "", answer |-> "", error |-> <<>>, alert |-> <<>>]
NoTimer == [armed |-> FALSE, due |-> 0, post |-> NoValue]

\* The directory is there, no blocking generation runs, no editor is mounted
ExtrasIdle ==
    /\ contentDir = TRUE
    /\ call = NoCall
    /\ timer = NoTimer
    /\ autosaves = 0
StoreIdle ==
    /\ files = <<>>
    /\ loaded = NoLoad
    /\ saved = <<>>
    /\ hasElectron = FALSE
    /\ blogPosts = <<>>
    /\ lsPosts = AbsentItem
    /\ currentPost = NoValue
    /\ currentView = "dashboard"
    /\ editorPost = NoValue
    /\ now = 1
    /\ saving = <<>>
    /\ init = [pc |-> "idle", closureEmpty |-> TRUE, outcome |-> "none"]
    /\ inits = 0
    /\ lastOp = NoOp
    /\ deleted = {}
    /\ ExtrasIdle

\* ------------------------------------------------------------------ bounds
MaxFrames == 2
MaxModels == 2

\* ------------------------------------------------------------------ text
NL == "\n"

\* 'data: ', the prefix tested by line.startsWith (part_004:172, 245)
DataPrefix == <<"d", "a", "t", "a", ":", " ">>

\* line.slice(6): the length of 'data: '
PrefixLen == 6

\* The characters of the string values used in frames.
Chars(s) ==
    CASE s = "ab" -> <<"a", "b">>
      [] s = "cd" -> <<"c", "d">>
      [] s = "boom" -> <<"b", "o", "o", "m">>
      [] s = "{\"title\":\"t\",\"content\":\"c\"}" ->
           <<"{", "\"", "t", "i", "t", "l", "e", "\"", ":", "\"", "t", "\"", ",", "\"", "c", "o", "n", "t", "e", "n", "t", "\"", ":", "\"", "c", "\"", "}">>
      [] s = "phi3" -> <<"p", "h", "i", "3">>
      [] s = "mistral:7b" -> <<"m", "i", "s", "t", "r", "a", "l", ":", "7", "b">>
      [] s = "llama3.1" -> <<"l", "l", "a", "m", "a", "3", ".", "1">>
      [] s = "gpt-4" -> <<"g", "p", "t", "-", "4">>
      [] s = "gpt-3.5-turbo-16k" ->
           <<"g", "p", "t", "-", "3", ".", "5", "-", "t", "u", "r", "b", "o", "-", "1", "6", "k">>
      [] s = "llama3" -> <<"l", "l", "a", "m", "a", "3">>
      [] s = "mistral" -> <<"m", "i", "s", "t", "r", "a", "l">>
      [] s = "gpt-3.5-turbo" ->
           <<"g", "p", "t", "-", "3", ".", "5", "-", "t", "u", "r", "b", "o">>
      [] OTHER -> <<>>

\* The characters of a JSON string literal: '"' and '\' are escaped
RECURSIVE Escape(_)
Escape(t) ==
    IF t = <<>> THEN <<>>
    ELSE (IF Head(t) \in {"\"", "\\"} THEN <<"\\", Head(t)>> ELSE <<Head(t)>>) \o Escape(Tail(t))

Quoted(s) == <<"\"">> \o Escape(Chars(s)) \o <<"\"">>

\* The frames a backend may write. "malformed" is a 'data: ' line whose
\* payload is not JSON.
ContentFrame(c) == [type |-> "content", arg |-> c]
DoneFrame == [type |-> "done", arg |-> ""]
ErrorFrame(m) == [type |-> "error", arg |-> m]
MalformedFrame == [type |-> "malformed", arg |-> ""]

ValidFrames == {ContentFrame("ab"), ContentFrame("cd"), DoneFrame, ErrorFrame("boom")}

\* A content frame that carries a whole blog post as JSON text
BlogJson == "{\"title\":\"t\",\"content\":\"c\"}"
BlogJsonFrame == ContentFrame(BlogJson)
ParsableFrames == ValidFrames \cup {BlogJsonFrame}
FrameUniverse == ValidFrames \cup {MalformedFrame}

\* The JSON text of a frame's payload, e.g. {"content":"ab"}
Payload(f) ==
    CASE f.type = "content" ->
           <<"{", "\"", "c", "o", "n", "t", "e", "n", "t", "\"", ":">> \o Quoted(f.arg) \o <<"}">>
      [] f.type = "done" ->
           <<"{", "\"", "d", "o", "n", "e", "\"", ":", "t", "r", "u", "e", "}">>
      [] f.type = "error" ->
           <<"{", "\"", "e", "r", "r", "o", "r", "\"", ":">> \o Quoted(f.arg) \o <<"}">>
      [] OTHER -> <<"{", "o", "o", "p", "s">>

Line(f) == DataPrefix \o Payload(f)

RECURSIVE StreamText(_)
StreamText(fs) ==
    IF fs = <<>> THEN <<>>
    ELSE Line(Head(fs)) \o <<NL>> \o StreamText(Tail(fs))

\* chunk.split('\n')
RECURSIVE Split(_)
Split(s) ==
    IF \A i \in 1..Len(s) : s[i] # NL THEN <<s>>
    ELSE LET i == CHOOSE k \in 1..Len(s) :
                      s[k] = NL /\ \A j \in 1..(k - 1) : s[j] # NL
         IN <<SubSeq(s, 1, i - 1)>> \o Split(SubSeq(s, i + 1, Len(s)))

\* line.startsWith('data: ')
StartsWith(s, p) == Len(s) >= Len(p) /\ SubSeq(s, 1, Len(p)) = p

\* line.slice(6)
Slice(s, n) == SubSeq(s, n + 1, Len(s))

\* JSON.parse on a payload. The texts that reach it are prefixes of a
\* frame's payload (a chunk may end inside a line); a proper prefix of an
\* object text is not JSON, so the complete payload texts are the only
\* ones that parse. The value is the object's fields, an absent field
\* being falsy ("" / FALSE).
ParseFailure == [ok |-> FALSE, error |-> "", done |-> FALSE, content |-> ""]
JSONparse(s) ==
    IF \E f \in ParsableFrames : Payload(f) = s
    THEN LET f == CHOOSE g \in ParsableFrames : Payload(g) = s
         IN [ok |-> TRUE,
             error |-> IF f.type = "error" THEN f.arg ELSE "",
             done |-> f.type = "done",
             content |-> IF f.type = "content" THEN f.arg ELSE ""]
    ELSE ParseFailure

\* ------------------------------------------------------------ callbacks
Callbacks == {"onChunk", "onComplete", "onError"}
Call(cb, arg) == [cb |-> cb, arg |-> arg]

\* The callbacks the editor passes: its onError throws (BlogEditor.js:645, 683)
EditorThrows == {"onError"}
ThrowModes == {{}, EditorThrows, Callbacks}

\* error.message of the failures the call can meet
HttpErrorMsg == "HTTP error! status: 500"
FetchErrorMsg == "Failed to fetch"
ReadErrorMsg == "network error"
CallbackErrorMsg == "callback threw"

\* ------------------------------------------------- the read loop's body
Step(ev, returned) == [events |-> ev, returned |-> returned]

\* One iteration of `for (const line of lines)` (part_004:171-193, 244-266).
\* The try block holds JSON.parse AND the three callback invocations, so an
\* exception thrown by a callback lands in the same catch as a parse error:
\* it is logged, the `return` after the callback is skipped and the loop
\* goes on with the next line.
HandleLine_AbortOnParseError(line, ev, thr) ==
    IF ~StartsWith(line, DataPrefix) THEN Step(ev, FALSE)
    ELSE LET data == JSONparse(Slice(line, PrefixLen))
         IN IF ~data.ok THEN Step(Append(ev, Call("onError", "parse error")), TRUE)
            ELSE IF data.error # ""
                 THEN Step(Append(ev, Call("onError", data.error)), "onError" \notin thr)
            ELSE IF data.done
                 THEN Step(Append(ev, Call("onComplete", "")), "onComplete" \notin thr)
            ELSE IF data.content # ""
                 THEN Step(Append(ev, Call("onChunk", data.content)), FALSE)
            ELSE Step(ev, FALSE)

HandleLine(line, ev, thr) ==
    IF ~StartsWith(line, DataPrefix) THEN Step(ev, FALSE)
    ELSE LET data == JSONparse(Slice(line, PrefixLen))
         IN IF ~data.ok THEN Step(ev, FALSE)
            ELSE IF data.error # ""
                 THEN Step(Append(ev, Call("onError", data.error)), "onError" \notin thr)
            ELSE IF data.done
                 THEN Step(Append(ev, Call("onComplete", "")), "onComplete" \notin thr)
            ELSE IF data.content # ""
                 THEN Step(Append(ev, Call("onChunk", data.content)), FALSE)
            ELSE Step(ev, FALSE)

\* The for loop over the lines of one chunk; `returned` when a `return`
\* statement was reached.
RECURSIVE ProcessLines(_, _, _)
ProcessLines(lines, ev, thr) ==
    IF lines = <<>> THEN Step(ev, FALSE)
    ELSE LET r == HandleLine(Head(lines), ev, thr)
         IN IF r.returned THEN r
            ELSE ProcessLines(Tail(lines), r.events, thr)

\* decoder.decode(value), chunk.split('\n') and the for loop
\* (part_004:168-193, 241-266)
ProcessChunk(chunk, ev, thr) == ProcessLines(Split(chunk), ev, thr)

\* ------------------------------------------------- finally / outer catch
\* reader.releaseLock() in the finally block (part_004:196, 269): whether
\* the lock is still held afterwards, by the way the try block was left.
LockAfterFinally_OnlyOnNormalExit(how) == how = "readFailure"

LockAfterFinally(how) == FALSE

\* The rest of the finally block: nothing for generateContentStream,
\* onComplete() for generateBlogPostStream (part_004:270).
Finally(k, ev, thr) ==
    IF k = "blog"
    THEN [events |-> Append(ev, Call("onComplete", "")), threw |-> "onComplete" \in thr]
    ELSE [events |-> ev, threw |-> FALSE]

\* catch (error) { onError(error.message) } (part_004:198-201, 272-275).
\* An exception of onError itself rejects the returned promise.
OuterCatch(ev, msg, thr) ==
    [events |-> Append(ev, Call("onError", msg)),
     result |-> IF "onError" \in thr THEN "rejected" ELSE "resolved"]

\* Leaving the inner try: by `return`, by `break` on done ("close") or by
\* an exception of reader.read() ("readFailure").
Leave(k, ev, thr, how) ==
    LET f == Finally(k, ev, thr)
    IN IF f.threw THEN OuterCatch(f.events, CallbackErrorMsg, thr)
       ELSE IF how = "readFailure" THEN OuterCatch(f.events, ReadErrorMsg, thr)
       ELSE [events |-> f.events, result |-> "resolved"]

\* ------------------------------------------------------------ the call
\* A 'data: ' line whose payload JSON.parse rejects
IsMalformedLine(l) == StartsWith(l, DataPrefix) /\ ~JSONparse(Slice(l, PrefixLen)).ok
IsNotMalformedLine(l) == ~IsMalformedLine(l)

FrameSeqs == UNION {[1..n -> FrameUniverse] : n \in 0..MaxFrames}

IdleGen == [provider |-> "", model |-> "", request |-> "none", alert |-> ""]

InitStream ==
    /\ kind \in {"content", "blog"}
    /\ throws \in ThrowModes
    /\ frames \in FrameSeqs
    /\ pos = 0
    /\ pc = "fetching"
    /\ acquired = FALSE
    /\ locked = FALSE
    /\ events = <<>>
    /\ result = "pending"
    /\ exitPath = "none"
    /\ abandoned = FALSE
    /\ filteredRun = Step(<<>>, FALSE)
    /\ selectedAiProvider = "ollama"
    /\ aiStatus = [ollama_available |-> FALSE, openai_available |-> FALSE]
    /\ aiModels = [ollama |-> <<>>, openai |-> <<>>]
    /\ localStorage = [ollama |-> "", openai |-> ""]
    /\ gen = IdleGen
    /\ SettingsIdle
    /\ StoreIdle

\* fetch resolves with response.ok; response.body.getReader()
\* (part_004:142-160, 214-233)
FetchOk ==
    /\ pc = "fetching"
    /\ pc' = "reading"
    /\ acquired' = TRUE
    /\ locked' = TRUE
    /\ UNCHANGED <<kind, throws, frames, pos, events, result, exitPath, abandoned,
                   filteredRun>>
    /\ UNCHANGED <<resolveVars, settingsVars, storeVars>>

\* The call ends in the outer catch without a reader.
FailBeforeReader(msg, how) ==
    LET c == OuterCatch(events, msg, throws)
    IN /\ pc = "fetching"
       /\ pc' = "settled"
       /\ events' = c.events
       /\ result' = c.result
       /\ exitPath' = how
       /\ UNCHANGED <<kind, throws, frames, pos, acquired, locked, abandoned,
                      filteredRun>>
       /\ UNCHANGED <<resolveVars, settingsVars, storeVars>>

\* !response.ok: throw new Error(`HTTP error! status: ...`) (part_004:155-157, 228-230)
FetchNotOk == FailBeforeReader(HttpErrorMsg, "httpError")

\* fetch itself rejects (backend not reachable)
FetchFails == FailBeforeReader(FetchErrorMsg, "fetchFailure")

\* The call leaves the read loop: finally, outer catch, the promise settles.
Settle(ev, how) ==
    LET l == Leave(kind, ev, throws, how)
    IN /\ pc' = "settled"
       /\ locked' = LockAfterFinally(how)
       /\ events' = l.events
       /\ result' = l.result
       /\ exitPath' = how

\* reader.read() yields a value of n characters: any cut of the body.
ReadChunk ==
    /\ pc = "reading"
    /\ \E n \in 1..(Len(StreamText(frames)) - pos) :
          LET chunk == SubSeq(StreamText(frames), pos + 1, pos + n)
              r == ProcessChunk(chunk, events, throws)
          IN /\ pos' = pos + n
             /\ filteredRun' = ProcessLines(SelectSeq(Split(chunk), IsNotMalformedLine),
                                            filteredRun.events, throws)
             /\ IF r.returned
                THEN Settle(r.events, "return")
                ELSE /\ events' = r.events
                     /\ UNCHANGED <<pc, locked, result, exitPath>>
    /\ UNCHANGED <<kind, throws, frames, acquired, abandoned>>
    /\ UNCHANGED <<resolveVars, settingsVars, storeVars>>

\* reader.read() yields done: break (part_004:166, 239)
ReadDone ==
    /\ pc = "reading"
    /\ pos = Len(StreamText(frames))
    /\ Settle(events, "close")
    /\ UNCHANGED <<kind, throws, frames, pos, acquired, abandoned, filteredRun>>
    /\ UNCHANGED <<resolveVars, settingsVars, storeVars>>

\* reader.read() rejects
ReadFails ==
    /\ pc = "reading"
    /\ Settle(events, "readFailure")
    /\ UNCHANGED <<kind, throws, frames, pos, acquired, abandoned, filteredRun>>
    /\ UNCHANGED <<resolveVars, settingsVars, storeVars>>

\* The caller leaves the editor (BlogEditor is unmounted when currentView
\* changes). The streaming methods take no abort signal and return no
\* handle, so nothing of the running call changes.
Abandon ==
    /\ ~abandoned
    /\ abandoned' = TRUE
    /\ UNCHANGED <<kind, throws, frames, pos, pc, acquired, locked, events,
                   result, exitPath, filteredRun>>
    /\ UNCHANGED <<resolveVars, settingsVars, storeVars>>

NextStream ==
    \/ FetchOk
    \/ FetchNotOk
    \/ FetchFails
    \/ ReadChunk
    \/ ReadDone
    \/ ReadFails
    \/ Abandon

SpecStream == InitStream /\ [][NextStream]_vars

\* =================================================================
\* Provider and model resolution (BlogEditor.handleAIGenerate,
\* preferencesService)
\* =================================================================
Providers == {"ollama", "openai"}
OllamaNames == {"phi3", "mistral:7b", "llama3.1"}
OpenAINames == {"gpt-4", "gpt-3.5-turbo-16k"}

\* The lists GET /models may answer: no name twice.
ModelLists(names) ==
    UNION {{l \in [1..n -> names] : \A i \in 1..n : \A j \in 1..n : l[i] = l[j] => i = j}
           : n \in 0..MaxModels}

StatusSet == [ollama_available : BOOLEAN, openai_available : BOOLEAN]

\* m.includes(keyword)
Includes(m, kw) ==
    \E i \in 1..(Len(Chars(m)) - Len(Chars(kw)) + 1) :
        SubSeq(Chars(m), i, i + Len(Chars(kw)) - 1) = Chars(kw)

\* availableModels.includes(model)
InList(m, list) == \E i \in DOMAIN list : list[i] = m

\* availableModels.find(m => m.includes(kw)); undefined is ""
Find(list, kw) ==
    IF \E i \in DOMAIN list : Includes(list[i], kw)
    THEN list[CHOOSE i \in DOMAIN list :
                  Includes(list[i], kw) /\ \A j \in 1..(i - 1) : ~Includes(list[j], kw)]
    ELSE ""

\* availableModels[0]; undefined is ""
First(list) == IF list = <<>> THEN "" ELSE list[1]

\* a || b on strings
Or(a, b) == IF a # "" THEN a ELSE b

\* localStorage.getItem(`preferred_${provider}_model`) || ''
getPreferredModel(provider) == localStorage[provider]

getBestModelForProvider_KeepsStalePreference(provider, availableModels) ==
    LET preferred == getPreferredModel(provider)
    IN IF preferred # "" THEN preferred
       ELSE IF provider = "ollama"
            THEN Or(Find(availableModels, "llama3"),
                    Or(Find(availableModels, "mistral"), First(availableModels)))
       ELSE IF provider = "openai"
            THEN Or(Find(availableModels, "gpt-3.5-turbo"), First(availableModels))
       ELSE First(availableModels)

getBestModelForProvider(provider, availableModels) ==
    LET preferred == getPreferredModel(provider)
    IN IF preferred # "" /\ InList(preferred, availableModels) THEN preferred
       ELSE IF provider = "ollama"
            THEN Or(Find(availableModels, "llama3"),
                    Or(Find(availableModels, "mistral"), First(availableModels)))
       ELSE IF provider = "openai"
            THEN Or(Find(availableModels, "gpt-3.5-turbo"), First(availableModels))
       ELSE First(availableModels)

\* aiStatus[provider + '_available']
Available(status, provider) ==
    IF provider = "ollama" THEN status.ollama_available ELSE status.openai_available

\* let currentProvider = selectedAiProvider; if (!aiStatus[...]) { ... }
\* (BlogEditor.js:566-574); null is ""
CurrentProvider_NoFallback(selected, status) == selected

CurrentProvider(selected, status) ==
    IF Available(status, selected) THEN selected
    ELSE IF status.ollama_available THEN "ollama"
    ELSE IF status.openai_available THEN "openai"
    ELSE ""

NoProvidersAlert == "No AI providers available. Please configure Ollama or OpenAI in Settings."

\* The endpoint of the streaming request (part_004:142, 214)
Endpoint(template) ==
    IF template = "blog" THEN "generate-blog-stream" ELSE "generate-content-stream"

\* The synchronous part of handleAIGenerate up to the streaming call, or up
\* to the alert of its catch block (BlogEditor.js:556-604, 650-655, 687-707)
Resolution(selected, status, models, template) ==
    LET provider == CurrentProvider(selected, status)
    IN IF provider = ""
       THEN [provider |-> "", model |-> "", request |-> "none", alert |-> NoProvidersAlert]
       ELSE [provider |-> provider,
             model |-> getBestModelForProvider(provider, models[provider]),
             request |-> Endpoint(template),
             alert |-> ""]

InitResolve ==
    /\ selectedAiProvider = "ollama"
    /\ aiStatus = [ollama_available |-> FALSE, openai_available |-> FALSE]
    /\ aiModels = [ollama |-> <<>>, openai |-> <<>>]
    /\ localStorage \in [ollama : OllamaNames \cup {""}, openai : OpenAINames \cup {""}]
    /\ gen = IdleGen
    /\ kind = "content"
    /\ throws = {}
    /\ frames = <<>>
    /\ pos = 0
    /\ pc = "idle"
    /\ acquired = FALSE
    /\ locked = FALSE
    /\ events = <<>>
    /\ result = "pending"
    /\ exitPath = "none"
    /\ abandoned = FALSE
    /\ filteredRun = Step(<<>>, FALSE)
    /\ SettingsIdle
    /\ StoreIdle

\* setAiStatus(await aiService.checkHealth()) (App.js:100-101)
CheckHealthResolves ==
    /\ \E st \in StatusSet : aiStatus' = st
    /\ UNCHANGED <<selectedAiProvider, aiModels, localStorage, gen>>
    /\ UNCHANGED <<streamVars, settingsVars, storeVars>>

\* setAiModels(await aiService.getAvailableModels()) (App.js:104-105)
GetModelsResolves ==
    /\ \E mo \in ModelLists(OllamaNames) : \E mp \in ModelLists(OpenAINames) :
          aiModels' = [ollama |-> mo, openai |-> mp]
    /\ UNCHANGED <<selectedAiProvider, aiStatus, localStorage, gen>>
    /\ UNCHANGED <<streamVars, settingsVars, storeVars>>

SelectProvider_RetargetsRunning ==
    /\ \E p \in Providers :
          /\ p # selectedAiProvider
          /\ selectedAiProvider' = p
          /\ gen' = IF gen.request # "none" THEN [gen EXCEPT !.provider = p] ELSE gen
    /\ UNCHANGED <<aiStatus, aiModels, localStorage>>
    /\ UNCHANGED <<streamVars, settingsVars, storeVars>>

\* The provider select of the AI panel: setSelectedAiProvider(e.target.value)
SelectProvider ==
    /\ \E p \in Providers : p # selectedAiProvider /\ selectedAiProvider' = p
    /\ UNCHANGED <<aiStatus, aiModels, localStorage, gen>>
    /\ UNCHANGED <<streamVars, settingsVars, storeVars>>

\* handleOllamaModelChange / handleOpenAIModelChange of AI Settings: the
\* model select offers the provider's current models
SetPreferredModel ==
    /\ \E p \in Providers : \E i \in DOMAIN aiModels[p] :
          localStorage' = [localStorage EXCEPT ![p] = aiModels[p][i]]
    /\ UNCHANGED <<selectedAiProvider, aiStatus, aiModels, gen>>
    /\ UNCHANGED <<streamVars, settingsVars, storeVars>>

\* handleAIGenerate with a non-blank prompt
HandleAIGenerate ==
    /\ \E template \in {"", "blog"} :
          gen' = Resolution(selectedAiProvider, aiStatus, aiModels, template)
    /\ UNCHANGED <<selectedAiProvider, aiStatus, aiModels, localStorage>>
    /\ UNCHANGED <<streamVars, settingsVars, storeVars>>

NextResolve ==
    \/ CheckHealthResolves
    \/ GetModelsResolves
    \/ SelectProvider
    \/ SetPreferredModel
    \/ HandleAIGenerate

SpecResolve == InitResolve /\ [][NextResolve]_vars

\* =================================================================
\* The AI Settings view (AISettings.js:17-60)
\* =================================================================
\* No streaming call is running
StreamIdle ==
    /\ kind = "content"
    /\ throws = {}
    /\ frames = <<>>
    /\ pos = 0
    /\ pc = "idle"
    /\ acquired = FALSE
    /\ locked = FALSE
    /\ events = <<>>
    /\ result = "pending"
    /\ exitPath = "none"
    /\ abandoned = FALSE
    /\ filteredRun = Step(<<>>, FALSE)

\* The default of the auto-select effect: aiModels.ollama.find(llama3) ||
\* find(mistral) || [0], aiModels.openai.find(gpt-3.5-turbo) || [0]
DefaultModel(provider, list) ==
    IF provider = "ollama"
    THEN Or(Find(list, "llama3"), Or(Find(list, "mistral"), First(list)))
    ELSE Or(Find(list, "gpt-3.5-turbo"), First(list))

\* One run of the auto-select effect for one provider, in a render whose
\* state is `selected`: the value it stores, "" when it stores nothing
AutoSelect(provider, selected, list) ==
    IF selected = "" /\ Len(list) > 0 THEN DefaultModel(provider, list) ELSE ""

\* Mounting AISettings with the models `models`: the first render has
\* selectedOllamaModel = selectedOpenAIModel = ''; its two effects run in
\* order with that state.  The first queues the stored preference as the new
\* state, the second (still seeing '') stores the default model when the
\* list is not empty and queues it as the new state after the first.
\* The effect re-run of the next render finds nothing to do: either the
\* state is set or the list is empty.
MountEffects(models, storage) ==
    LET auto == [p \in Providers |-> AutoSelect(p, "", models[p])]
    IN [storage |-> [p \in Providers |-> Or(auto[p], storage[p])],
        selected |-> [p \in Providers |-> Or(auto[p], storage[p])]]

InitSettings ==
    /\ selectedAiProvider = "ollama"
    /\ aiStatus = [ollama_available |-> FALSE, openai_available |-> FALSE]
    /\ aiModels = [ollama |-> <<>>, openai |-> <<>>]
    /\ localStorage \in [ollama : OllamaNames \cup {""}, openai : OpenAINames \cup {""}]
    /\ gen = IdleGen
    /\ StreamIdle
    /\ SettingsIdle
    /\ StoreIdle

\* setCurrentView('settings') (part_005: the sidebar's settings entry)
MountSettings ==
    /\ ~settingsMounted
    /\ settingsMounted' = TRUE
    /\ LET m == MountEffects(aiModels, localStorage)
       IN /\ localStorage' = m.storage
          /\ selectedModel' = m.selected
    /\ UNCHANGED <<selectedAiProvider, aiStatus, aiModels, gen, chosen>>
    /\ UNCHANGED <<streamVars, storeVars>>

\* Leaving the settings view, or closing the application: the component
\* state is lost, localStorage is kept
UnmountSettings ==
    /\ settingsMounted
    /\ settingsMounted' = FALSE
    /\ selectedModel' = NoSelection
    /\ UNCHANGED <<selectedAiProvider, aiStatus, aiModels, localStorage, gen, chosen>>
    /\ UNCHANGED <<streamVars, storeVars>>

\* handleOllamaModelChange(model) / handleOpenAIModelChange(model): a click
\* on one of the listed models
HandleModelChange ==
    /\ settingsMounted
    /\ \E p \in Providers : \E i \in DOMAIN aiModels[p] :
          /\ selectedModel' = [selectedModel EXCEPT ![p] = aiModels[p][i]]
          /\ localStorage' = [localStorage EXCEPT ![p] = aiModels[p][i]]
          /\ chosen' = [chosen EXCEPT ![p] = aiModels[p][i]]
    /\ UNCHANGED <<selectedAiProvider, aiStatus, aiModels, gen, settingsMounted>>
    /\ UNCHANGED <<streamVars, storeVars>>

\* initializeApp (at start, or handleRefresh -> onRefresh): the application
\* renders its loading screen while it runs, which unmounts the view, and
\* setAiModels has the new lists when the view is mounted again
\* (App.js:53-95, 104-105, 268)
RefreshModels ==
    /\ \E mo \in ModelLists(OllamaNames) : \E mp \in ModelLists(OpenAINames) :
          LET models == [ollama |-> mo, openai |-> mp]
              m == MountEffects(models, localStorage)
          IN /\ aiModels' = models
             /\ localStorage' = IF settingsMounted THEN m.storage ELSE localStorage
             /\ selectedModel' = IF settingsMounted THEN m.selected ELSE selectedModel
    /\ UNCHANGED <<selectedAiProvider, aiStatus, gen, settingsMounted, chosen>>
    /\ UNCHANGED <<streamVars, storeVars>>

NextSettings ==
    \/ MountSettings
    \/ UnmountSettings
    \/ HandleModelChange
    \/ RefreshModels

SpecSettings == InitSettings /\ [][NextSettings]_vars

\* =================================================================
\* The durable record: 'save-blog-post' and 'load-blog-posts'
\* (electron.js:281-319, 337-398)
\* =================================================================
\* JavaScript values: a tag and the characters of the value (for an array
\* of strings, the sequence of its strings)
Str(cs) == [t |-> "string", v |-> cs]
Num(cs) == [t |-> "number", v |-> cs]
Bool(cs) == [t |-> "boolean", v |-> cs]
Arr(ks) == [t |-> "array", v |-> ks]
Null == [t |-> "null", v |-> <<>>]
Undefined == [t |-> "undefined", v |-> <<>>]

\* The characters of the literal texts of the two handlers, of App, of the
\* service and of the editor
Text(s) ==
    CASE s = "true" -> <<"t", "r", "u", "e">>
      [] s = "false" -> <<"f", "a", "l", "s", "e">>
      [] s = "null" -> <<"n", "u", "l", "l">>
      [] s = "undefined" -> <<"u", "n", "d", "e", "f", "i", "n", "e", "d">>
      [] s = "untitled" -> <<"u", "n", "t", "i", "t", "l", "e", "d">>
      [] s = ".md" -> <<".", "m", "d">>
      [] s = "---" -> <<"-", "-", "-">>
      [] s = ": " -> <<":", " ">>
      [] s = "id" -> <<"i", "d">>
      [] s = "title" -> <<"t", "i", "t", "l", "e">>
      [] s = "createdAt" -> <<"c", "r", "e", "a", "t", "e", "d", "A", "t">>
      [] s = "updatedAt" -> <<"u", "p", "d", "a", "t", "e", "d", "A", "t">>
      [] s = "status" -> <<"s", "t", "a", "t", "u", "s">>
      [] s = "seoKeywords" -> <<"s", "e", "o", "K", "e", "y", "w", "o", "r", "d", "s">>
      [] s = "metaDescription" -> <<"m", "e", "t", "a", "D", "e", "s", "c", "r", "i", "p", "t", "i", "o", "n">>
      [] s = "Untitled" -> <<"U", "n", "t", "i", "t", "l", "e", "d">>
      [] s = "draft" -> <<"d", "r", "a", "f", "t">>
      [] s = "Untitled Blog Post" -> <<"U", "n", "t", "i", "t", "l", "e", "d", " ", "B", "l", "o", "g", " ", "P", "o", "s", "t">>
      [] s = "README.md" -> <<"R", "E", "A", "D", "M", "E", ".", "m", "d">>
      [] s = "notes_7.md" -> <<"n", "o", "t", "e", "s", "_", "7", ".", "m", "d">>
      [] s = "broken_8.md" -> <<"b", "r", "o", "k", "e", "n", "_", "8", ".", "m", "d">>
      [] s = "AI service is not running. Please start the Python backend." -> <<"A", "I", " ", "s", "e", "r", "v", "i", "c", "e", " ", "i", "s", " ", "n", "o", "t", " ", "r", "u", "n", "n", "i", "n", "g", ".", " ", "P", "l", "e", "a", "s", "e", " ", "s", "t", "a", "r", "t", " ", "t", "h", "e", " ", "P", "y", "t", "h", "o", "n", " ", "b", "a", "c", "k", "e", "n", "d", ".">>
      [] s = "AI service error" -> <<"A", "I", " ", "s", "e", "r", "v", "i", "c", "e", " ", "e", "r", "r", "o", "r">>
      [] s = "Network error. Please check your connection." -> <<"N", "e", "t", "w", "o", "r", "k", " ", "e", "r", "r", "o", "r", ".", " ", "P", "l", "e", "a", "s", "e", " ", "c", "h", "e", "c", "k", " ", "y", "o", "u", "r", " ", "c", "o", "n", "n", "e", "c", "t", "i", "o", "n", ".">>
      [] s = "Failed to generate blog post" -> <<"F", "a", "i", "l", "e", "d", " ", "t", "o", " ", "g", "e", "n", "e", "r", "a", "t", "e", " ", "b", "l", "o", "g", " ", "p", "o", "s", "t">>
      [] s = "Failed to generate content" -> <<"F", "a", "i", "l", "e", "d", " ", "t", "o", " ", "g", "e", "n", "e", "r", "a", "t", "e", " ", "c", "o", "n", "t", "e", "n", "t">>
      [] s = "AI service is not running" -> <<"A", "I", " ", "s", "e", "r", "v", "i", "c", "e", " ", "i", "s", " ", "n", "o", "t", " ", "r", "u", "n", "n", "i", "n", "g">>
      [] s = "timeout" -> <<"t", "i", "m", "e", "o", "u", "t">>
      [] s = "No AI providers" -> <<"N", "o", " ", "A", "I", " ", "p", "r", "o", "v", "i", "d", "e", "r", "s">>
      [] s = "AI service is not running. Please check if Ollama is running or OpenAI is configured." -> <<"A", "I", " ", "s", "e", "r", "v", "i", "c", "e", " ", "i", "s", " ", "n", "o", "t", " ", "r", "u", "n", "n", "i", "n", "g", ".", " ", "P", "l", "e", "a", "s", "e", " ", "c", "h", "e", "c", "k", " ", "i", "f", " ", "O", "l", "l", "a", "m", "a", " ", "i", "s", " ", "r", "u", "n", "n", "i", "n", "g", " ", "o", "r", " ", "O", "p", "e", "n", "A", "I", " ", "i", "s", " ", "c", "o", "n", "f", "i", "g", "u", "r", "e", "d", ".">>
      [] s = "AI generation timed out. Try a shorter prompt or check your connection." -> <<"A", "I", " ", "g", "e", "n", "e", "r", "a", "t", "i", "o", "n", " ", "t", "i", "m", "e", "d", " ", "o", "u", "t", ".", " ", "T", "r", "y", " ", "a", " ", "s", "h", "o", "r", "t", "e", "r", " ", "p", "r", "o", "m", "p", "t", " ", "o", "r", " ", "c", "h", "e", "c", "k", " ", "y", "o", "u", "r", " ", "c", "o", "n", "n", "e", "c", "t", "i", "o", "n", ".">>
      [] s = "No AI providers available. Please configure Ollama or OpenAI in Settings." -> <<"N", "o", " ", "A", "I", " ", "p", "r", "o", "v", "i", "d", "e", "r", "s", " ", "a", "v", "a", "i", "l", "a", "b", "l", "e", ".", " ", "P", "l", "e", "a", "s", "e", " ", "c", "o", "n", "f", "i", "g", "u", "r", "e", " ", "O", "l", "l", "a", "m", "a", " ", "o", "r", " ", "O", "p", "e", "n", "A", "I", " ", "i", "n", " ", "S", "e", "t", "t", "i", "n", "g", "s", ".">>
      [] s = "AI generation failed: " -> <<"A", "I", " ", "g", "e", "n", "e", "r", "a", "t", "i", "o", "n", " ", "f", "a", "i", "l", "e", "d", ":", " ">>
      [] s = "model not found" -> <<"m", "o", "d", "e", "l", " ", "n", "o", "t", " ", "f", "o", "u", "n", "d">>
      [] s = "gateway timeout" -> <<"g", "a", "t", "e", "w", "a", "y", " ", "t", "i", "m", "e", "o", "u", "t">>
      [] OTHER -> <<>>

\* x is truthy: '', 0, false, null and undefined are not
Truthy(x) ==
    CASE x.t = "string" -> x.v # <<>>
      [] x.t = "number" -> x.v # <<"0">>
      [] x.t = "boolean" -> x.v = Text("true")
      [] x.t = "array" -> TRUE
      [] OTHER -> FALSE

\* x || y
OrElse(x, y) == IF Truthy(x) THEN x ELSE y

\* JSON.stringify of an array of strings: ["k1","k2"]
RECURSIVE StringifyItems(_)
StringifyItems(ks) ==
    IF ks = <<>> THEN <<>>
    ELSE <<"\"">> \o Head(ks) \o <<"\"">>
         \o (IF Tail(ks) = <<>> THEN <<>> ELSE <<",">> \o StringifyItems(Tail(ks)))

Stringify(ks) == <<"[">> \o StringifyItems(ks) \o <<"]">>

RECURSIVE Join(_)
Join(ks) ==
    IF ks = <<>> THEN <<>>
    ELSE Head(ks) \o (IF Tail(ks) = <<>> THEN <<>> ELSE <<",">> \o Join(Tail(ks)))

\* `${x}` in a template literal
ToText(x) ==
    CASE x.t = "undefined" -> Text("undefined")
      [] x.t = "null" -> Text("null")
      [] x.t = "array" -> Join(x.v)
      [] OTHER -> x.v

Digits == {"0", "1", "2", "3", "4", "5", "6", "7", "8", "9"}
LowerCase == <<"a", "b", "c", "d", "e", "f", "g", "h", "i", "j", "k", "l", "m", "n", "o", "p", "q", "r", "s", "t", "u", "v", "w", "x", "y", "z">>
UpperCase == <<"A", "B", "C", "D", "E", "F", "G", "H", "I", "J", "K", "L", "M", "N", "O", "P", "Q", "R", "S", "T", "U", "V", "W", "X", "Y", "Z">>

\* c.toLowerCase()
ToLower(c) ==
    IF \E i \in DOMAIN UpperCase : UpperCase[i] = c
    THEN LowerCase[CHOOSE i \in DOMAIN UpperCase : UpperCase[i] = c]
    ELSE c

\* /[^a-z0-9]/i does not match c
IsAlnum(c) == c \in Digits \/ \E i \in DOMAIN LowerCase : LowerCase[i] = ToLower(c)

\* post.title.replace(/[^a-z0-9]/gi, '_').toLowerCase() || 'untitled'
SafeTitle(title) ==
    LET safe == [i \in DOMAIN title |-> IF IsAlnum(title[i]) THEN ToLower(title[i]) ELSE "_"]
    IN IF safe = <<>> THEN Text("untitled") ELSE safe

\* `${safeTitle}_${post.id}.md`
Filename(post) == SafeTitle(post.title.v) \o <<"_">> \o ToText(post.id) \o Text(".md")

\* key: "value"
QuotedLine(key, text) == key \o Text(": ") \o <<"\"">> \o text \o <<"\"", NL>>

\* The template literal markdownContent (electron.js:297-307)
MarkdownContent(post) ==
    Text("---") \o <<NL>>
    \o QuotedLine(Text("title"), ToText(post.title))
    \o QuotedLine(Text("createdAt"), ToText(post.createdAt))
    \o QuotedLine(Text("updatedAt"), ToText(post.updatedAt))
    \o QuotedLine(Text("status"), ToText(post.status))
    \o Text("seoKeywords") \o Text(": ") \o Stringify(OrElse(post.seoKeywords, Arr(<<>>)).v) \o <<NL>>
    \o QuotedLine(Text("metaDescription"), ToText(OrElse(post.metaDescription, Str(<<>>))))
    \o Text("---") \o <<NL>>
    \o <<NL>>
    \o ToText(OrElse(post.content, Str(<<>>))) \o <<NL>>

\* The directory ~/QuillPilot/blog-posts is a function from file names to
\* file texts.  fs.writeFileSync(filePath, markdownContent)
WriteFile(fs, name, text) ==
    [n \in DOMAIN fs \cup {name} |-> IF n = name THEN text ELSE fs[n]]

\* ipcMain.handle('save-blog-post'): post.title.replace is a TypeError when
\* the title is not a string; `diskOk` is whether mkdirSync/writeFileSync
\* succeed.  Every exception is caught and answered with success: false.
SaveBlogPostHandler(fs, post, diskOk) ==
    IF post.title.t # "string" \/ ~diskOk
    THEN [success |-> FALSE, files |-> fs]
    ELSE [success |-> TRUE, files |-> WriteFile(fs, Filename(post), MarkdownContent(post))]

\* s.indexOf(pat, from) with positions counted from 1; 0 when absent
IndexOf(s, pat, from) ==
    LET hits == {i \in from..(Len(s) - Len(pat) + 1) : SubSeq(s, i, i + Len(pat) - 1) = pat}
    IN IF hits = {} THEN 0 ELSE CHOOSE i \in hits : \A j \in hits : i <= j

\* the last position of pat in s; 0 when absent
LastIndexOf(s, pat) ==
    LET hits == {i \in 1..(Len(s) - Len(pat) + 1) : SubSeq(s, i, i + Len(pat) - 1) = pat}
    IN IF hits = {} THEN 0 ELSE CHOOSE i \in hits : \A j \in hits : i >= j

\* file.endsWith('.md')
EndsWith(s, p) == Len(s) >= Len(p) /\ SubSeq(s, Len(s) - Len(p) + 1, Len(s)) = p

OpenMarker == Text("---") \o <<NL>>
CloseMarker == <<NL>> \o Text("---") \o <<NL>>

\* content.match(/^---\n([\s\S]*?)\n---\n([\s\S]*)$/): the lazy first group
\* ends at the first '\n---\n' after the opening '---\n'
FrontmatterMatch(content) ==
    LET i == IF StartsWith(content, OpenMarker)
             THEN IndexOf(content, CloseMarker, Len(OpenMarker) + 1) ELSE 0
    IN IF i = 0 THEN [matched |-> FALSE, frontmatter |-> <<>>, postContent |-> <<>>]
       ELSE [matched |-> TRUE,
             frontmatter |-> SubSeq(content, Len(OpenMarker) + 1, i - 1),
             postContent |-> SubSeq(content, i + Len(CloseMarker), Len(content))]

\* value.replace(/^"|"$/g, '')
StripQuotes(s) ==
    LET a == IF s # <<>> /\ Head(s) = "\"" THEN Tail(s) ELSE s
    IN IF a # <<>> /\ a[Len(a)] = "\"" THEN SubSeq(a, 1, Len(a) - 1) ELSE a

\* The keyword lists of the documents of this model
Keywords == {<<>>, <<<<"k">>>>}

IsJSONNumber(s) ==
    /\ s # <<>>
    /\ \A i \in DOMAIN s : s[i] \in Digits
    /\ (Len(s) = 1 \/ s[1] # "0")

\* try { metadata[key] = JSON.parse(value) } catch { metadata[key] = value }
\* on the values of this model: digits are a number, true/false/null the
\* JSON literals, the text of a keyword list that list; every other value
\* (a word, a timestamp, the empty string) is not JSON and is kept as text
ParseValue(s) ==
    IF IsJSONNumber(s) THEN Num(s)
    ELSE IF s = Text("true") \/ s = Text("false") THEN Bool(s)
    ELSE IF s = Text("null") THEN Null
    ELSE IF \E ks \in Keywords : Stringify(ks) = s
    THEN Arr(CHOOSE ks \in Keywords : Stringify(ks) = s)
    ELSE Str(s)

\* const [key, ...valueParts] = line.split(': ');
\* if (key && valueParts.length > 0) { value = valueParts.join(': ')... }
ParseLine(line) ==
    LET j == IndexOf(line, Text(": "), 1)
    IN IF j <= 1 THEN [ok |-> FALSE, key |-> <<>>, value |-> Undefined]
       ELSE [ok |-> TRUE,
             key |-> SubSeq(line, 1, j - 1),
             value |-> ParseValue(StripQuotes(SubSeq(line, j + Len(Text(": ")), Len(line))))]

\* metadata[key] after the forEach over the frontmatter lines: the last
\* line of that key wins, a key never set is undefined
Metadata(lines, key) ==
    LET hits == {i \in DOMAIN lines : ParseLine(lines[i]).ok /\ ParseLine(lines[i]).key = key}
    IN IF hits = {} THEN Undefined
       ELSE ParseLine(lines[CHOOSE i \in hits : \A j \in hits : i >= j]).value

\* file.replace('.md', '').split('_').pop()
IdFromName(file) ==
    LET i == IndexOf(file, Text(".md"), 1)
        base == IF i = 0 THEN file
                ELSE SubSeq(file, 1, i - 1) \o SubSeq(file, i + Len(Text(".md")), Len(file))
        u == LastIndexOf(base, <<"_">>)
    IN SubSeq(base, u + 1, Len(base))

\* new Date().toISOString() at clock value n: a text that is not JSON
DigitText == <<"0", "1", "2", "3", "4", "5", "6", "7", "8", "9">>
TimeText(n) == <<"T", DigitText[n + 1]>>

\* The post pushed for one file whose content matches (electron.js:375-385)
LoadedPost(file, content, time) ==
    LET m == FrontmatterMatch(content)
        lines == Split(m.frontmatter)
    IN [id |-> OrElse(Metadata(lines, Text("id")), Str(IdFromName(file))),
        title |-> OrElse(Metadata(lines, Text("title")), Str(Text("Untitled"))),
        content |-> Str(m.postContent),
        createdAt |-> OrElse(Metadata(lines, Text("createdAt")), Str(TimeText(time))),
        updatedAt |-> OrElse(Metadata(lines, Text("updatedAt")), Str(TimeText(time))),
        status |-> OrElse(Metadata(lines, Text("status")), Str(Text("draft"))),
        seoKeywords |-> OrElse(Metadata(lines, Text("seoKeywords")), Arr(<<>>)),
        metaDescription |-> OrElse(Metadata(lines, Text("metaDescription")), Str(<<>>)),
        filePath |-> Str(file)]

\* ipcMain.handle('load-blog-posts'): the loop over the '.md' files in the
\* order `order` of readdirSync; a file that does not match is passed over
RECURSIVE LoadBlogPostsHandler(_, _, _)
LoadBlogPostsHandler(fs, order, time) ==
    IF order = <<>> THEN <<>>
    ELSE LET file == Head(order)
         IN (IF EndsWith(file, Text(".md")) /\ FrontmatterMatch(fs[file]).matched
             THEN <<LoadedPost(file, fs[file], time)>> ELSE <<>>)
            \o LoadBlogPostsHandler(fs, Tail(order), time)

\* The orders in which readdirSync may list the directory
Orders(fs) ==
    {o \in [1..Cardinality(DOMAIN fs) -> DOMAIN fs] :
        \A i \in DOMAIN o : \A j \in DOMAIN o : o[i] = o[j] => i = j}

\* ----------------------------------------------------------------
\* The two handlers run against a directory (codec runs)
\* ----------------------------------------------------------------
MaxFiles == 2

\* No provider resolution is going on
ResolveIdle ==
    /\ selectedAiProvider = "ollama"
    /\ aiStatus = [ollama_available |-> FALSE, openai_available |-> FALSE]
    /\ aiModels = [ollama |-> <<>>, openai |-> <<>>]
    /\ localStorage = [ollama |-> "", openai |-> ""]
    /\ gen = IdleGen

\* The documents handed to 'save-blog-post': every fixed field populated,
\* the title possibly empty or reading as a JSON scalar, keywords and
\* summary possibly absent
CodecTitles == {<<>>, <<"a">>, <<"1", "2", "3">>, Text("true")}
CodecDocs ==
    [id : {Str(<<"1">>), Str(<<"2">>)},
     title : {Str(t) : t \in CodecTitles},
     content : {Str(<<"x">>)},
     createdAt : {Str(TimeText(1))},
     updatedAt : {Str(TimeText(1))},
     status : {Str(Text("draft"))},
     seoKeywords : {Undefined, Arr(<<<<"k">>>>)},
     metaDescription : {Undefined, Str(<<"m">>)},
     filePath : {Undefined}]

\* Files that reach the directory otherwise than through 'save-blog-post':
\* the README.md written by ensureContentDirectory (electron.js:24-55, its
\* text shortened), which has no metadata block; a file whose block is
\* never closed; a file whose block holds no 'key: value' line
ForeignFiles ==
    {[name |-> Text("README.md"), text |-> <<"#", " ", "W", "e", "l", "c", "o", "m", "e">> \o <<NL>>],
     [name |-> Text("notes_7.md"), text |-> OpenMarker \o QuotedLine(Text("title"), <<"n">>) \o <<"x", NL>>],
     [name |-> Text("broken_8.md"), text |-> OpenMarker \o <<"{", "{", "{">> \o CloseMarker \o <<"x", NL>>]}
ForeignNames == {f.name : f \in ForeignFiles}

InitCodec ==
    /\ files = <<>>
    /\ loaded = NoLoad
    /\ saved = <<>>
    /\ hasElectron = TRUE
    /\ blogPosts = <<>>
    /\ lsPosts = AbsentItem
    /\ currentPost = NoValue
    /\ currentView = "dashboard"
    /\ editorPost = NoValue
    /\ now = 1
    /\ saving = <<>>
    /\ init = [pc |-> "idle", closureEmpty |-> TRUE, outcome |-> "none"]
    /\ inits = 0
    /\ lastOp = NoOp
    /\ deleted = {}
    /\ ExtrasIdle
    /\ StreamIdle
    /\ ResolveIdle
    /\ SettingsIdle

codecFrame == <<hasElectron, blogPosts, lsPosts, currentPost, currentView, editorPost,
                now, saving, init, inits, lastOp, deleted, contentDir, call, timer,
                autosaves>>

\* One 'save-blog-post' request
SaveBlogPostIPC ==
    /\ \E post \in CodecDocs : \E diskOk \in BOOLEAN :
          LET r == SaveBlogPostHandler(files, post, diskOk)
          IN /\ Cardinality(DOMAIN r.files \ ForeignNames) <= MaxFiles
             /\ files' = r.files
             /\ saved' = IF r.success THEN WriteFile(saved, Filename(post), post) ELSE saved
    /\ loaded' = NoLoad
    /\ UNCHANGED codecFrame
    /\ UNCHANGED <<streamVars, resolveVars, settingsVars>>

\* A file written into the directory by something else
ForeignWrite ==
    /\ \E f \in ForeignFiles :
          /\ f.name \notin DOMAIN files
          /\ DOMAIN files \cap ForeignNames = {}
          /\ files' = WriteFile(files, f.name, f.text)
    /\ loaded' = NoLoad
    /\ UNCHANGED saved
    /\ UNCHANGED codecFrame
    /\ UNCHANGED <<streamVars, resolveVars, settingsVars>>

\* One 'load-blog-posts' request
LoadBlogPostsIPC ==
    /\ ~loaded.done
    /\ \E order \in Orders(files) :
          loaded' = [done |-> TRUE, posts |-> LoadBlogPostsHandler(files, order, now)]
    /\ UNCHANGED <<files, saved>>
    /\ UNCHANGED codecFrame
    /\ UNCHANGED <<streamVars, resolveVars, settingsVars>>

NextCodec ==
    \/ SaveBlogPostIPC
    \/ ForeignWrite
    \/ LoadBlogPostsIPC

SpecCodec == InitCodec /\ [][NextCodec]_vars

\* =================================================================
\* The application's stores: initializeApp, saveBlogPost, deleteBlogPost
\* (App.js:53-95, 150-164, 217-266)
\* =================================================================
MaxClock == 3
MaxInits == 3
MaxSaving == 1

CorruptItem == [kind |-> "corrupt", posts |-> <<>>]

\* localStorage.setItem('quillpilot-posts', JSON.stringify(list)) and the
\* JSON.parse of it: an undefined property is omitted by stringify and
\* reads as undefined after parse, every other value of a post is a
\* string, a number, a boolean or an array of strings and is kept
StoredItem(list) == [kind |-> "list", posts |-> list]

\* Date.now().toString()
IdText(time) == <<DigitText[time + 1]>>

\* newPost of handleNewBlogPost (App.js:151-160)
NewPost(time) ==
    [id |-> Str(IdText(time)), title |-> Str(Text("Untitled Blog Post")), content |-> Str(<<>>),
     createdAt |-> Str(TimeText(time)), updatedAt |-> Str(TimeText(time)),
     status |-> Str(Text("draft")), seoKeywords |-> Arr(<<>>),
     metaDescription |-> Str(<<>>), filePath |-> Undefined]

\* The initial state of BlogEditor without a post (BlogEditor.js:486-493)
DefaultPost(time) ==
    [id |-> Str(IdText(time)), title |-> Str(<<>>), content |-> Str(<<>>),
     createdAt |-> Undefined, updatedAt |-> Undefined,
     status |-> Str(Text("draft")), seoKeywords |-> Arr(<<>>),
     metaDescription |-> Str(<<>>), filePath |-> Undefined]

\* updatedPosts.findIndex(p => p.id === post.id), counted from 1; 0 is -1
FindIndex(list, id) ==
    IF \E i \in DOMAIN list : list[i].id = id
    THEN CHOOSE i \in DOMAIN list : list[i].id = id /\ \A j \in 1..(i - 1) : list[j].id # id
    ELSE 0

\* updatedPosts of saveBlogPost (App.js:218-232)
UpdatedPosts(list, post, time) ==
    LET existingIndex == FindIndex(list, post.id)
    IN IF existingIndex > 0
       THEN [list EXCEPT ![existingIndex] = [post EXCEPT !.updatedAt = Str(TimeText(time))]]
       ELSE Append(list, [post EXCEPT !.createdAt = Str(TimeText(time)),
                                      !.updatedAt = Str(TimeText(time))])

\* blogPosts.filter(p => p.id !== postId)
RECURSIVE Without(_, _)
Without(list, id) ==
    IF list = <<>> THEN <<>>
    ELSE (IF Head(list).id # id THEN <<Head(list)>> ELSE <<>>) \o Without(Tail(list), id)

\* What the await of window.electronAPI.saveBlogPost(post) does to the
\* directory: "ok" and "failed" are answers of the handler (success true /
\* false), "throws" is a rejected invoke
DurableWrite(fs, post, outcome) ==
    IF outcome = "throws" THEN fs
    ELSE SaveBlogPostHandler(fs, post, outcome = "ok").files

\* saveBlogPost after its await (App.js:247-249)
FinishSave_SkipMirrorOnFailure(s, fs, view, outcome) ==
    [files |-> DurableWrite(fs, s.post, outcome),
     lsPosts |-> IF outcome = "ok" THEN StoredItem(s.updatedPosts) ELSE lsPosts,
     currentPost |-> s.post,
     editorPost |-> IF view = "editor" THEN s.post ELSE NoValue]

FinishSave(s, fs, view, outcome) ==
    [files |-> DurableWrite(fs, s.post, outcome),
     lsPosts |-> StoredItem(s.updatedPosts),
     currentPost |-> s.post,
     editorPost |-> IF view = "editor" THEN s.post ELSE NoValue]

\* deleteBlogPost (App.js:252-261)
DeleteEffect(list, current, view, editor, postId) ==
    LET updatedPosts == Without(list, postId)
        open == current # NoValue /\ current.id = postId
    IN [blogPosts |-> updatedPosts,
        lsPosts |-> StoredItem(updatedPosts),
        currentPost |-> IF open THEN NoValue ELSE current,
        currentView |-> IF open THEN "dashboard" ELSE view,
        editorPost |-> IF open THEN NoValue ELSE editor]

\* The tail of initializeApp (App.js:76-88): blogPosts is the value of the
\* render that created this initializeApp
Fallback(list, closureEmpty, item) ==
    IF closureEmpty /\ item.kind = "list" THEN item.posts ELSE list

\* The directory as an earlier run of the application may have left it: one
\* post written by 'save-blog-post'
EarlierFiles == SaveBlogPostHandler(<<>>, NewPost(0), TRUE).files

InitPersist ==
    /\ hasElectron \in BOOLEAN
    /\ files \in IF hasElectron THEN {<<>>, EarlierFiles} ELSE {<<>>}
    /\ loaded = NoLoad
    /\ saved = <<>>
    /\ blogPosts = <<>>
    /\ lsPosts \in {AbsentItem, CorruptItem}
    /\ currentPost = NoValue
    /\ currentView = "dashboard"
    /\ editorPost = NoValue
    /\ now = 1
    /\ saving = <<>>
    /\ init = [pc |-> "start", closureEmpty |-> TRUE, outcome |-> "none"]
    /\ inits = 1
    /\ lastOp = NoOp
    /\ deleted = {}
    /\ ExtrasIdle
    /\ StreamIdle
    /\ ResolveIdle
    /\ SettingsIdle

Loading == init.pc # "idle"

otherVars == <<streamVars, resolveVars, settingsVars, loaded, saved, hasElectron,
               contentDir, call, timer, autosaves>>

\* initializeApp up to the answer of loadBlogPosts (App.js:54-71)
InitializeAppLoad ==
    /\ init.pc = "start"
    /\ \E outcome \in IF hasElectron THEN {"ok", "failed", "throws"} ELSE {"noapi"} :
          /\ init' = [init EXCEPT !.pc = "loaded", !.outcome = outcome]
          /\ IF outcome = "ok"
             THEN \E order \in Orders(files) :
                      blogPosts' = LoadBlogPostsHandler(files, order, now)
             ELSE UNCHANGED blogPosts
    /\ lastOp' = NoOp
    /\ UNCHANGED <<files, lsPosts, currentPost, currentView, editorPost, now, saving, inits, deleted>>
    /\ UNCHANGED otherVars

\* initializeApp from initializeAIServices to setLoading(false) (App.js:73-94)
InitializeAppFinish ==
    /\ init.pc = "loaded"
    /\ blogPosts' = Fallback(blogPosts, init.closureEmpty, lsPosts)
    /\ init' = [init EXCEPT !.pc = "idle"]
    /\ lastOp' = [op |-> "init", id |-> <<>>, outcome |-> init.outcome]
    /\ UNCHANGED <<files, lsPosts, currentPost, currentView, editorPost, now, saving, inits, deleted>>
    /\ UNCHANGED otherVars

\* handleRefresh of AI Settings: onRefresh() is the initializeApp of the
\* current render; setLoading(true) unmounts the views
Refresh ==
    /\ ~Loading
    /\ currentView = "settings"
    /\ inits < MaxInits
    /\ inits' = inits + 1
    /\ init' = [pc |-> "start", closureEmpty |-> blogPosts = <<>>, outcome |-> "none"]
    /\ lastOp' = NoOp
    /\ UNCHANGED <<files, blogPosts, lsPosts, currentPost, currentView, editorPost, now, saving, deleted>>
    /\ UNCHANGED otherVars

\* The application is closed and started again: the stores stay, the state
\* of the components starts over and the mount effect runs initializeApp
Restart ==
    /\ inits < MaxInits
    /\ inits' = inits + 1
    /\ init' = [pc |-> "start", closureEmpty |-> TRUE, outcome |-> "none"]
    /\ blogPosts' = <<>>
    /\ currentPost' = NoValue
    /\ currentView' = "dashboard"
    /\ editorPost' = NoValue
    /\ saving' = <<>>
    /\ lastOp' = NoOp
    /\ UNCHANGED <<files, lsPosts, now, deleted>>
    /\ UNCHANGED otherVars

\* handleNewBlogPost (App.js:150-164)
HandleNewBlogPost ==
    /\ ~Loading
    /\ now < MaxClock
    /\ currentPost' = NewPost(now)
    /\ editorPost' = NewPost(now)
    /\ currentView' = "editor"
    /\ now' = now + 1
    /\ lastOp' = NoOp
    /\ UNCHANGED <<files, blogPosts, lsPosts, saving, init, inits, deleted>>
    /\ UNCHANGED otherVars

\* openBlogPost (App.js:263-266)
OpenBlogPost ==
    /\ ~Loading
    /\ \E i \in DOMAIN blogPosts :
          /\ currentPost' = blogPosts[i]
          /\ editorPost' = blogPosts[i]
    /\ currentView' = "editor"
    /\ lastOp' = NoOp
    /\ UNCHANGED <<files, blogPosts, lsPosts, now, saving, init, inits, deleted>>
    /\ UNCHANGED otherVars

\* setCurrentView(view) of the sidebar: the editor mounts with the current
\* post, or with its own initial post when there is none
SetCurrentView ==
    /\ ~Loading
    /\ \E view \in {"dashboard", "editor", "settings"} :
          /\ view # currentView
          /\ currentView' = view
          /\ IF view = "editor"
             THEN /\ currentPost = NoValue => now < MaxClock
                  /\ editorPost' = IF currentPost = NoValue THEN DefaultPost(now)
                                   ELSE currentPost
                  /\ now' = IF currentPost = NoValue THEN now + 1 ELSE now
             ELSE /\ editorPost' = NoValue
                  /\ UNCHANGED now
    /\ lastOp' = NoOp
    /\ UNCHANGED <<files, blogPosts, lsPosts, currentPost, saving, init, inits, deleted>>
    /\ UNCHANGED otherVars

\* handleTitleChange (BlogEditor.js:533-535)
EditTitles == {<<"a">>}
HandleTitleChange ==
    /\ ~Loading
    /\ editorPost # NoValue
    /\ \E t \in EditTitles :
          /\ editorPost.title # Str(t)
          /\ editorPost' = [editorPost EXCEPT !.title = Str(t)]
    /\ lastOp' = NoOp
    /\ UNCHANGED <<files, blogPosts, lsPosts, currentPost, currentView, now, saving, init, inits, deleted>>
    /\ UNCHANGED otherVars

\* saveBlogPost(post) from handleSave or the auto-save timer of the editor,
\* up to its await; without window.electronAPI it runs to its end.  The
\* clock is read and moves on: every operation that reads it happens at a
\* later instant than the one before
SaveBlogPost ==
    /\ ~Loading
    /\ editorPost # NoValue
    /\ now < MaxClock
    /\ now' = now + 1
    /\ LET post == editorPost
           updatedPosts == UpdatedPosts(blogPosts, post, now)
           s == [post |-> post, updatedPosts |-> updatedPosts]
       IN /\ blogPosts' = updatedPosts
          /\ deleted' = deleted \ {post.id.v}
          /\ IF hasElectron
             THEN /\ Len(saving) < MaxSaving
                  /\ saving' = Append(saving, s)
                  /\ lastOp' = NoOp
                  /\ UNCHANGED <<files, lsPosts, currentPost, editorPost>>
             ELSE LET r == FinishSave(s, files, currentView, "noapi")
                  IN /\ lsPosts' = r.lsPosts
                     /\ currentPost' = r.currentPost
                     /\ editorPost' = r.editorPost
                     /\ lastOp' = [op |-> "save", id |-> post.id.v, outcome |-> "noapi"]
                     /\ UNCHANGED <<files, saving>>
    /\ UNCHANGED <<currentView, init, inits>>
    /\ UNCHANGED otherVars

\* saveBlogPost from the answer of window.electronAPI.saveBlogPost(post) to
\* its end (App.js:236-249)
SaveBlogPostResume ==
    /\ \E i \in DOMAIN saving : \E outcome \in {"ok", "failed", "throws"} :
          LET s == saving[i]
              r == FinishSave(s, files, IF Loading THEN "loading" ELSE currentView, outcome)
          IN /\ files' = r.files
             /\ lsPosts' = r.lsPosts
             /\ currentPost' = r.currentPost
             /\ editorPost' = r.editorPost
             /\ saving' = SubSeq(saving, 1, i - 1) \o SubSeq(saving, i + 1, Len(saving))
             /\ lastOp' = [op |-> "save", id |-> s.post.id.v, outcome |-> outcome]
    /\ UNCHANGED <<blogPosts, currentView, now, init, inits, deleted>>
    /\ UNCHANGED otherVars

\* The ids a delete can be asked for: a post of the list (dashboard) or the
\* post of the editor (handleDelete)
DeletableIds ==
    {blogPosts[i].id : i \in DOMAIN blogPosts}
    \cup (IF editorPost # NoValue THEN {editorPost.id} ELSE {})

\* deleteBlogPost(postId) (App.js:252-261)
DeleteBlogPost ==
    /\ ~Loading
    /\ \E postId \in DeletableIds :
          LET r == DeleteEffect(blogPosts, currentPost, currentView, editorPost, postId)
          IN /\ blogPosts' = r.blogPosts
             /\ lsPosts' = r.lsPosts
             /\ currentPost' = r.currentPost
             /\ currentView' = r.currentView
             /\ editorPost' = r.editorPost
             /\ lastOp' = [op |-> "delete", id |-> postId.v, outcome |-> "none"]
             /\ deleted' = deleted \cup {postId.v}
    /\ UNCHANGED <<files, now, saving, init, inits>>
    /\ UNCHANGED otherVars

NextPersist ==
    \/ InitializeAppLoad
    \/ InitializeAppFinish
    \/ Refresh
    \/ Restart
    \/ HandleNewBlogPost
    \/ OpenBlogPost
    \/ SetCurrentView
    \/ HandleTitleChange
    \/ SaveBlogPost
    \/ SaveBlogPostResume
    \/ DeleteBlogPost

SpecPersist == InitPersist /\ [][NextPersist]_vars

\* =================================================================
\* Provisioning of the content directory (electron.js:15-58, 281-335,
\* 474-476)
\* =================================================================
\* What mkdirSync and writeFileSync do when they are reached
DiskOutcomes == {"ok", "mkdirFails", "writeFails"}

\* The welcome file of ensureContentDirectory
Readme == CHOOSE f \in ForeignFiles : f.name = Text("README.md")

EnsureContentDirectory_AlwaysWritesReadme(dir, fs, disk) ==
    IF disk # "ok" /\ ~dir
    THEN [dir |-> disk = "writeFails", files |-> fs, outcome |-> "failed"]
    ELSE [dir |-> TRUE, files |-> WriteFile(fs, Readme.name, Readme.text),
          outcome |-> IF dir THEN "existed" ELSE "created"]

\* ensureContentDirectory (electron.js:15-58): every exception is caught
EnsureContentDirectory(dir, fs, disk) ==
    IF dir THEN [dir |-> TRUE, files |-> fs, outcome |-> "existed"]
    ELSE IF disk = "mkdirFails" THEN [dir |-> FALSE, files |-> fs, outcome |-> "failed"]
    ELSE IF disk = "writeFails" THEN [dir |-> TRUE, files |-> fs, outcome |-> "failed"]
    ELSE [dir |-> TRUE, files |-> WriteFile(fs, Readme.name, Readme.text),
          outcome |-> "created"]

\* ipcMain.handle('get-content-directory') (electron.js:321-335)
GetContentDirectory(dir, fs, disk) ==
    [dir |-> dir \/ disk # "mkdirFails", files |-> fs,
     success |-> dir \/ disk # "mkdirFails"]

\* 'save-blog-post' with its existsSync / mkdirSync in front (electron.js:286-290)
SaveOnDirectory(dir, fs, post, disk) ==
    LET made == dir \/ disk # "mkdirFails"
        r == SaveBlogPostHandler(fs, post, made /\ disk = "ok")
    IN [dir |-> made, files |-> r.files, success |-> r.success]

ProvisionDocs == {d \in CodecDocs : d.seoKeywords = Undefined /\ d.metaDescription = Undefined
                                    /\ d.title \in {Str(<<>>), Str(<<"a">>)}}

InitProvision ==
    /\ contentDir = FALSE
    /\ files = <<>>
    /\ loaded = NoLoad
    /\ saved = <<>>
    /\ hasElectron = TRUE
    /\ blogPosts = <<>>
    /\ lsPosts = AbsentItem
    /\ currentPost = NoValue
    /\ currentView = "dashboard"
    /\ editorPost = NoValue
    /\ now = 1
    /\ saving = <<>>
    /\ init = [pc |-> "idle", closureEmpty |-> TRUE, outcome |-> "none"]
    /\ inits = 0
    /\ lastOp = NoOp
    /\ deleted = {}
    /\ call = NoCall
    /\ timer = NoTimer
    /\ autosaves = 0
    /\ StreamIdle
    /\ ResolveIdle
    /\ SettingsIdle

provisionFrame == <<streamVars, resolveVars, settingsVars, loaded, saved, hasElectron,
                    blogPosts, lsPosts, currentPost, currentView, editorPost, now,
                    saving, init, inits, deleted, call, timer, autosaves>>

\* app.whenReady().then(() => { ensureContentDirectory(); ... }) and the
\* 'test-create-content-directory' request (electron.js:421-428, 474-476)
Startup ==
    /\ \E disk \in DiskOutcomes :
          LET r == EnsureContentDirectory(contentDir, files, disk)
          IN /\ contentDir' = r.dir
             /\ files' = r.files
             /\ lastOp' = [op |-> "ensure", id |-> <<>>, outcome |-> r.outcome]
    /\ UNCHANGED provisionFrame

\* One 'get-content-directory' request
GetContentDirectoryIPC ==
    /\ \E disk \in DiskOutcomes :
          LET r == GetContentDirectory(contentDir, files, disk)
          IN /\ contentDir' = r.dir
             /\ files' = r.files
             /\ lastOp' = [op |-> "getdir", id |-> <<>>,
                           outcome |-> IF contentDir THEN "existed"
                                       ELSE IF r.success THEN "created" ELSE "failed"]
    /\ UNCHANGED provisionFrame

\* One 'save-blog-post' request
SaveOnDirectoryIPC ==
    /\ \E post \in ProvisionDocs : \E disk \in DiskOutcomes :
          LET r == SaveOnDirectory(contentDir, files, post, disk)
          IN /\ Cardinality(DOMAIN r.files \ ForeignNames) <= MaxFiles
             /\ contentDir' = r.dir
             /\ files' = r.files
             /\ lastOp' = [op |-> "save", id |-> post.id.v,
                           outcome |-> IF ~r.success THEN "failed"
                                       ELSE IF contentDir THEN "existed" ELSE "created"]
    /\ UNCHANGED provisionFrame

\* The user removes the folder from the home directory
RemoveDirectory ==
    /\ contentDir
    /\ contentDir' = FALSE
    /\ files' = <<>>
    /\ lastOp' = NoOp
    /\ UNCHANGED provisionFrame

NextProvision ==
    \/ Startup
    \/ GetContentDirectoryIPC
    \/ SaveOnDirectoryIPC
    \/ RemoveDirectory

SpecProvision == InitProvision /\ [][NextProvision]_vars

\* =================================================================
\* Blocking generation: the axios client of AIService, generateBlogPost /
\* generateContent and the catch block of the editor (part_004:7-45,
\* 77-131; BlogEditor.js:687-707)
\* =================================================================
\* The ways a POST of the client can end: the connection is refused, the
\* 30 s timeout of the client passes, another failure without a response,
\* a response with a status outside 2xx, a 2xx body with success false, a
\* 2xx body with success true.  `detail` is the `error` field of the body,
\* <<>> when it is absent or empty.
Details == {<<>>, Text("model not found"), Text("gateway timeout")}
Answers ==
    [cause : {"refused", "timeout", "network"}, status : {0}, detail : {<<>>}]
    \cup [cause : {"status"}, status : {400, 500}, detail : Details]
    \cup [cause : {"failure"}, status : {200}, detail : Details]
    \cup [cause : {"success"}, status : {200}, detail : {<<>>}]

\* error.code of the error axios rejects with
ErrorCode(cause) ==
    CASE cause = "refused" -> "ECONNREFUSED"
      [] cause = "timeout" -> "ECONNABORTED"
      [] cause = "network" -> "ERR_NETWORK"
      [] cause = "status" -> "ERR_BAD_RESPONSE"
      [] OTHER -> ""

\* a || b on texts
OrText(a, b) == IF a # <<>> THEN a ELSE b

\* message.includes(part)
Contains(message, part) == IndexOf(message, part, 1) > 0

\* The rejected branch of the response interceptor (part_004:31-44)
InterceptorMessage(a) ==
    IF ErrorCode(a.cause) = "ECONNREFUSED"
    THEN Text("AI service is not running. Please start the Python backend.")
    ELSE IF a.cause = "status"
    THEN OrText(a.detail, Text("AI service error"))
    ELSE Text("Network error. Please check your connection.")

\* generateBlogPost / generateContent (part_004:77-131): the message of the
\* error thrown, <<>> when the result is returned
GenerateError(method, a) ==
    IF a.cause = "success" THEN <<>>
    ELSE IF a.cause = "failure"
    THEN OrText(a.detail, IF method = "blog" THEN Text("Failed to generate blog post")
                          ELSE Text("Failed to generate content"))
    ELSE InterceptorMessage(a)

\* errorMessage of the catch block of handleAIGenerate (BlogEditor.js:696-707)
EditorAlert(message) ==
    IF Contains(message, Text("AI service is not running"))
    THEN Text("AI service is not running. Please check if Ollama is running or OpenAI is configured.")
    ELSE IF Contains(message, Text("timeout"))
    THEN Text("AI generation timed out. Try a shorter prompt or check your connection.")
    ELSE IF Contains(message, Text("No AI providers"))
    THEN Text("No AI providers available. Please configure Ollama or OpenAI in Settings.")
    ELSE Text("AI generation failed: ") \o message

InitBlocking ==
    /\ call = NoCall
    /\ contentDir = TRUE
    /\ timer = NoTimer
    /\ autosaves = 0
    /\ files = <<>>
    /\ loaded = NoLoad
    /\ saved = <<>>
    /\ hasElectron = FALSE
    /\ blogPosts = <<>>
    /\ lsPosts = AbsentItem
    /\ currentPost = NoValue
    /\ currentView = "editor"
    /\ editorPost = NoValue
    /\ now = 1
    /\ saving = <<>>
    /\ init = [pc |-> "idle", closureEmpty |-> TRUE, outcome |-> "none"]
    /\ inits = 0
    /\ lastOp = NoOp
    /\ deleted = {}
    /\ StreamIdle
    /\ ResolveIdle
    /\ SettingsIdle

blockingFrame == <<streamVars, resolveVars, settingsVars, files, loaded, saved,
                   hasElectron, blogPosts, lsPosts, currentPost, currentView,
                   editorPost, now, saving, init, inits, lastOp, deleted, contentDir,
                   timer, autosaves>>

\* this.client.post('/generate-blog' | '/generate-content', ...) is issued
PostGenerate ==
    /\ call.pc \in {"idle", "done"}
    /\ \E method \in {"blog", "content"} : \E provider \in Providers :
          call' = [pc |-> "waiting", method |-> [name |-> method, provider |-> provider],
                   answer |-> "", error |-> <<>>, alert |-> <<>>]
    /\ UNCHANGED blockingFrame

\* The POST ends; the interceptor and the method turn it into a result or
\* into a thrown error
PostSettles ==
    /\ call.pc = "waiting"
    /\ \E a \in Answers :
          call' = [call EXCEPT !.pc = IF a.cause = "success" THEN "done" ELSE "thrown",
                               !.answer = a,
                               !.error = GenerateError(call.method.name, a)]
    /\ UNCHANGED blockingFrame

\* The catch block of the editor: alert(errorMessage)
EditorCatch ==
    /\ call.pc = "thrown"
    /\ call' = [call EXCEPT !.pc = "done", !.alert = EditorAlert(call.error)]
    /\ UNCHANGED blockingFrame

NextBlocking ==
    \/ PostGenerate
    \/ PostSettles
    \/ EditorCatch

SpecBlocking == InitBlocking /\ [][NextBlocking]_vars

\* =================================================================
\* Templated generation in the editor: generateBlogPostStream with the
\* callbacks of handleAIGenerate (BlogEditor.js:596-647)
\* =================================================================
\* aiPrompt of the render that started the generation
Topic == <<"t", "o", "p">>

\* The edited document and streamingContentRef.current before the call
EditorStart == [ref |-> <<>>, title |-> <<"o">>, content |-> <<"o", "l", "d">>]

\* JSON.parse(finalContent) and the fields read from it.  The texts the
\* callbacks can accumulate are concatenations of the contents "ab" and
\* BlogJson; of these only BlogJson alone is JSON.
ParseBlog(text) ==
    IF text = Chars(BlogJson)
    THEN [ok |-> TRUE, title |-> <<"t">>, content |-> <<"c">>]
    ELSE [ok |-> FALSE, title |-> <<>>, content |-> <<>>]

\* The three callbacks (BlogEditor.js:605-646) applied to the state of the
\* editor; the exception of onError is the caller's concern (`throws`)
EditorCallback(st, e) ==
    IF e.cb = "onChunk" THEN [st EXCEPT !.ref = @ \o Chars(e.arg)]
    ELSE IF e.cb = "onError" THEN [st EXCEPT !.ref = <<>>]
    ELSE LET blogData == ParseBlog(st.ref)
         IN [ref |-> <<>>,
             title |-> IF blogData.ok THEN OrText(blogData.title, Topic) ELSE Topic,
             content |-> IF blogData.ok THEN blogData.content ELSE st.ref]

\* The state of the editor after the callback invocations `ev`
RECURSIVE EditorAfter(_, _)
EditorAfter(ev, st) ==
    IF ev = <<>> THEN st
    ELSE EditorAfter(Tail(ev), EditorCallback(st, Head(ev)))

BlogFrames == {ContentFrame("ab"), BlogJsonFrame, DoneFrame, ErrorFrame("boom")}
BlogFrameSeqs == UNION {[1..n -> BlogFrames] : n \in 0..MaxFrames}

InitBlog ==
    /\ kind = "blog"
    /\ throws = EditorThrows
    /\ frames \in BlogFrameSeqs
    /\ pos = 0
    /\ pc = "fetching"
    /\ acquired = FALSE
    /\ locked = FALSE
    /\ events = <<>>
    /\ result = "pending"
    /\ exitPath = "none"
    /\ abandoned = FALSE
    /\ filteredRun = Step(<<>>, FALSE)
    /\ ResolveIdle
    /\ SettingsIdle
    /\ StoreIdle

SpecBlog == InitBlog /\ [][NextStream]_vars

\* =================================================================
\* Auto-save of the editor (BlogEditor.js:512-527) with saveBlogPost of App
\* (App.js:217-250) as its onSave
\* =================================================================
MaxAutoClock == 4

\* The delay of the timeout, in ticks of the clock: 1000 ms
Debounce == 1

\* One run of the auto-save effect in a render whose state is `post`:
\* setTimeout(() => { ... onSave(currentPost) }, 1000)
Arm(post, time) == [armed |-> TRUE, due |-> time + Debounce, post |-> post]

AutoTitles == {<<"a">>, <<"b">>}

\* The editor has just been mounted, by handleNewBlogPost or from the
\* sidebar with no current post; its effects have run
InitAutoSave ==
    /\ hasElectron \in BOOLEAN
    /\ files = <<>>
    /\ loaded = NoLoad
    /\ saved = <<>>
    /\ blogPosts = <<>>
    /\ lsPosts = AbsentItem
    /\ currentPost \in {NewPost(0), NoValue}
    /\ editorPost = IF currentPost = NoValue THEN DefaultPost(0) ELSE currentPost
    /\ currentView = "editor"
    /\ now = 1
    /\ timer = Arm(editorPost, now)
    /\ autosaves = 0
    /\ saving = <<>>
    /\ init = [pc |-> "idle", closureEmpty |-> TRUE, outcome |-> "none"]
    /\ inits = 0
    /\ lastOp = NoOp
    /\ deleted = {}
    /\ contentDir = TRUE
    /\ call = NoCall
    /\ StreamIdle
    /\ ResolveIdle
    /\ SettingsIdle

autoSaveFrame == <<streamVars, resolveVars, settingsVars, loaded, saved, hasElectron,
                   currentView, saving, init, inits, deleted, contentDir, call>>

\* handleTitleChange: the state of the editor is a new object, the cleanup
\* of the effect clears the timeout and the effect sets a new one
EditorEdit ==
    /\ \E t \in AutoTitles :
          /\ editorPost.title # Str(t)
          /\ editorPost' = [editorPost EXCEPT !.title = Str(t)]
    /\ timer' = Arm(editorPost', now)
    /\ autosaves' = 0
    /\ lastOp' = NoOp
    /\ UNCHANGED <<files, blogPosts, lsPosts, currentPost, now>>
    /\ UNCHANGED autoSaveFrame

\* Time passes; a timeout that is due runs before it passes further
Tick ==
    /\ now < MaxAutoClock
    /\ ~(timer.armed /\ timer.due <= now)
    /\ now' = now + 1
    /\ lastOp' = NoOp
    /\ UNCHANGED <<files, blogPosts, lsPosts, currentPost, editorPost, timer, autosaves>>
    /\ UNCHANGED autoSaveFrame

\* The timeout runs: onSave(currentPost) when the post has a title or a
\* body.  saveBlogPost calls setBlogPosts with a new array, App renders
\* again and hands the editor the saveBlogPost of that render as onSave,
\* so the dependencies of the effect have changed and it sets a new timeout.
AutoSaveFires ==
    /\ timer.armed
    /\ timer.due <= now
    /\ LET post == timer.post
       IN IF Truthy(post.title) \/ Truthy(post.content)
          THEN \E outcome \in IF hasElectron THEN {"ok", "failed", "throws"} ELSE {"noapi"} :
                  LET s == [post |-> post, updatedPosts |-> UpdatedPosts(blogPosts, post, now)]
                      r == FinishSave(s, files, currentView, outcome)
                  IN /\ blogPosts' = s.updatedPosts
                     /\ files' = r.files
                     /\ lsPosts' = r.lsPosts
                     /\ currentPost' = r.currentPost
                     /\ editorPost' = r.editorPost
                     /\ timer' = Arm(r.editorPost, now)
                     /\ autosaves' = autosaves + 1
                     /\ lastOp' = [op |-> "save", id |-> post.id.v, outcome |-> outcome]
          ELSE /\ timer' = [timer EXCEPT !.armed = FALSE]
               /\ lastOp' = NoOp
               /\ UNCHANGED <<files, blogPosts, lsPosts, currentPost, editorPost, autosaves>>
    /\ UNCHANGED now
    /\ UNCHANGED autoSaveFrame

NextAutoSave ==
    \/ EditorEdit
    \/ Tick
    \/ AutoSaveFires

SpecAutoSave == InitAutoSave /\ [][NextAutoSave]_vars

\* =================================================================
\* Properties of the streaming calls (checked under SpecStream)
\* =================================================================
Count(ev, cb) == Cardinality({i \in DOMAIN ev : ev[i].cb = cb})
IsChunkCall(e) == e.cb = "onChunk"
IsContentFrame(f) == f.type = "content"
IsTerminalFrame(f) == f.type \in {"done", "error"}
NoTerminalFrame(fs) == \A i \in DOMAIN fs : ~IsTerminalFrame(fs[i])
ChunkCallsOf(fs) ==
    LET cs == SelectSeq(fs, IsContentFrame)
    IN [i \in DOMAIN cs |-> Call("onChunk", cs[i].arg)]

\* The events of a call whose transport delivers one whole line per chunk.
RECURSIVE AlignedLoop(_, _, _)
AlignedLoop(fs, ev, thr) ==
    IF fs = <<>> THEN Step(ev, FALSE)
    ELSE LET r == ProcessChunk(Line(Head(fs)) \o <<NL>>, ev, thr)
         IN IF r.returned THEN r ELSE AlignedLoop(Tail(fs), r.events, thr)

AlignedEvents(k, fs, thr) ==
    LET r == AlignedLoop(fs, <<>>, thr)
    IN Leave(k, r.events, thr, IF r.returned THEN "return" ELSE "close").events

\* C1: whatever the cuts of the body into chunks, a call that meets no
\* transport failure delivers the events it delivers when every chunk holds
\* whole lines.
C1_SameEventsForEveryChunking ==
    (pc = "settled" /\ exitPath \in {"return", "close"})
        => events = AlignedEvents(kind, frames, throws)

\* C2: a settled call has invoked onComplete and onError exactly once in total.
C2_ExactlyOneTerminalCallback ==
    pc = "settled" => Count(events, "onComplete") + Count(events, "onError") = 1

\* C3: when the transport closes and no done or error frame was sent,
\* onComplete has been invoked, by either method.
C3_CloseWithoutTerminalFrameCompletes ==
    (pc = "settled" /\ exitPath = "close" /\ NoTerminalFrame(frames))
        => Count(events, "onComplete") >= 1

\* C4: after the onError of an error frame, no onChunk and no onComplete is
\* invoked.
C4_NothingAfterErrorFrame ==
    \A i \in DOMAIN events : \A j \in DOMAIN events :
        (i < j /\ events[i] = Call("onError", "boom"))
            => events[j].cb \notin {"onChunk", "onComplete"}

\* C5: a stream of frames without terminal frame that was read to its end
\* has invoked onChunk once per content frame, in the order of the frames.
C5_OneChunkCallPerContentFrameInOrder ==
    (pc = "settled" /\ exitPath = "close" /\ NoTerminalFrame(frames))
        => SelectSeq(events, IsChunkCall) = ChunkCallsOf(frames)

\* C6: a 'data: ' line whose payload is not JSON invokes no callback and
\* does not end the stream: at every moment the call has delivered the events
\* it delivers on the same chunks with those lines taken out, and it has
\* left its loop by `return` exactly when that run has.
C6_MalformedLineIsDropped ==
    /\ pc = "reading" => (events = filteredRun.events /\ ~filteredRun.returned)
    /\ (pc = "settled" /\ acquired) =>
          /\ filteredRun.returned = (exitPath = "return")
          /\ events = Leave(kind, filteredRun.events, throws, exitPath).events

\* C6 witness: a malformed line, then a content frame that is delivered.
C6_Witness ==
    /\ pc = "settled"
    /\ exitPath = "close"
    /\ frames = <<MalformedFrame, ContentFrame("ab")>>
    /\ events = <<Call("onChunk", "ab")>>

\* C7: a settled call that had acquired the reader has released it.
C7_ReaderReleasedOnEveryExit ==
    (pc = "settled" /\ acquired) => ~locked

\* C7 witness: the read failed while every callback throws.
C7_Witness ==
    /\ pc = "settled"
    /\ acquired
    /\ exitPath = "readFailure"
    /\ throws = Callbacks
    /\ Count(events, "onChunk") >= 1
    /\ result = "rejected"

\* C8: once the caller has abandoned the generation, no callback is invoked
\* any more and the reader is released.
C8_NoCallbackAfterCancel ==
    [][abandoned => (events' = events /\ ~locked')]_vars

\* =================================================================
\* Properties of the resolution (checked under SpecResolve)
\* =================================================================
\* C9: in every state, a generation started now uses the selected provider
\* if it is available, otherwise ollama if available, otherwise openai if
\* available; with neither available it ends in the 'no providers' alert and
\* sends no request.
C9_ProviderResolution ==
    \A template \in {"", "blog"} :
        LET g == Resolution(selectedAiProvider, aiStatus, aiModels, template)
            sel == selectedAiProvider
            selAvail == IF sel = "ollama" THEN aiStatus.ollama_available
                        ELSE aiStatus.openai_available
        IN /\ selAvail => g.provider = sel
           /\ (~selAvail /\ aiStatus.ollama_available) => g.provider = "ollama"
           /\ (~selAvail /\ ~aiStatus.ollama_available /\ aiStatus.openai_available)
                 => g.provider = "openai"
           /\ (~aiStatus.ollama_available /\ ~aiStatus.openai_available)
                 => (g.provider = "" /\ g.request = "none" /\ g.alert = NoProvidersAlert)
           /\ (aiStatus.ollama_available \/ aiStatus.openai_available)
                 => (g.request # "none" /\ g.alert = "")

\* C9 witness: a generation that fell back from the unavailable selected
\* provider (openai) to ollama and sent its request.
C9_Witness ==
    /\ selectedAiProvider = "openai"
    /\ ~aiStatus.openai_available
    /\ aiStatus.ollama_available
    /\ gen.provider = "ollama"
    /\ gen.request = "generate-content-stream"

\* The first model of a list whose name contains a keyword, "" if none.
HasKeyword(list, kw) == \E i \in DOMAIN list : Includes(list[i], kw)
IsFirstWithKeyword(m, list, kw) ==
    \E i \in DOMAIN list :
        /\ list[i] = m
        /\ Includes(m, kw)
        /\ \A j \in DOMAIN list : j < i => ~Includes(list[j], kw)

\* C10: for each provider, the model chosen for its current list is the stored
\* preference when the list holds it; otherwise the first model with the
\* best-ranked keyword present (ollama: llama3, then mistral; openai:
\* gpt-3.5-turbo); otherwise the first model; and unset for an empty list. It
\* is a member of the list or unset.
C10_ModelChoice ==
    \A p \in Providers :
        LET list == aiModels[p]
            pref == localStorage[p]
            m == getBestModelForProvider(p, list)
            kept == pref # "" /\ (\E i \in DOMAIN list : list[i] = pref)
            kw1 == IF p = "ollama" THEN "llama3" ELSE "gpt-3.5-turbo"
        IN /\ kept => m = pref
           /\ (~kept /\ HasKeyword(list, kw1)) => IsFirstWithKeyword(m, list, kw1)
           /\ (~kept /\ p = "ollama" /\ ~HasKeyword(list, kw1) /\ HasKeyword(list, "mistral"))
                 => IsFirstWithKeyword(m, list, "mistral")
           /\ (~kept /\ ~HasKeyword(list, kw1) /\ list # <<>>
                 /\ (p = "ollama" => ~HasKeyword(list, "mistral")))
                 => m = list[1]
           /\ list = <<>> => m = ""
           /\ (m = "" \/ \E i \in DOMAIN list : list[i] = m)

\* C10 witness: a generation whose stored preference is no longer in the
\* list and whose model is the llama3 one although another model is first.
C10_Witness ==
    /\ gen.provider = "ollama"
    /\ gen.request # "none"
    /\ localStorage.ollama = "mistral:7b"
    /\ aiModels.ollama = <<"phi3", "llama3.1">>
    /\ gen.model = "llama3.1"

\* C11: a model the user chose for a provider in AI Settings is that
\* provider's stored preference until the user chooses another one: closing
\* and reopening the view, a refresh and a new session leave it in place.
C11_ChosenModelStaysStored ==
    \A p \in Providers : chosen[p] # "" => localStorage[p] = chosen[p]

\* The fields of a document, an absent summary read as '' and absent
\* keywords as the empty list
Normalised(d) ==
    [id |-> d.id, title |-> d.title, content |-> d.content,
     createdAt |-> d.createdAt, updatedAt |-> d.updatedAt, status |-> d.status,
     seoKeywords |-> IF d.seoKeywords = Undefined THEN Arr(<<>>) ELSE d.seoKeywords,
     metaDescription |-> IF d.metaDescription = Undefined THEN Str(<<>>)
                         ELSE d.metaDescription]

\* C12: loading the file written by 'save-blog-post' for a document d
\* yields a document equal to d in id, title, body, createdAt, updatedAt,
\* status, keywords and summary.
C12_RoundTrip ==
    loaded.done =>
        \A name \in DOMAIN saved :
            \E i \in DOMAIN loaded.posts :
                /\ loaded.posts[i].filePath = Str(name)
                /\ Normalised(loaded.posts[i]) = Normalised(saved[name])

\* C13: a batch load passes over every file whose metadata block is
\* missing, unterminated or unparsable and still returns every valid file:
\* the posts returned are exactly those of the files written by
\* 'save-blog-post'.
C13_BatchLoadIsolatesFaults ==
    loaded.done =>
        /\ \A i \in DOMAIN loaded.posts : loaded.posts[i].filePath.v \in DOMAIN saved
        /\ \A name \in DOMAIN saved :
              \E i \in DOMAIN loaded.posts : loaded.posts[i].filePath = Str(name)
        /\ Len(loaded.posts) = Cardinality(DOMAIN saved)

\* C14: when the durable store is unavailable at load time (no Electron
\* API, the load throws or answers success false), initializeApp leaves the
\* document list equal to the list held by the ephemeral store, and leaves
\* it unchanged when the ephemeral value is corrupt.  Stated of the runs of
\* initializeApp during which no save is waiting for its durable write.
C14_FallbackWhenDurableUnavailable ==
    (init.pc = "loaded" /\ init.outcome # "ok" /\ saving = <<>>) =>
        LET after == Fallback(blogPosts, init.closureEmpty, lsPosts)
        IN /\ lsPosts.kind = "list" => after = lsPosts.posts
           /\ lsPosts.kind = "corrupt" => after = blogPosts

\* C15: when the durable load succeeds and returns at least one document,
\* the document list after initializeApp is the durable list, whatever the
\* ephemeral store holds.
C15_DurableListWins ==
    (init.pc = "loaded" /\ init.outcome = "ok" /\ blogPosts # <<>>) =>
        Fallback(blogPosts, init.closureEmpty, lsPosts) = blogPosts

\* The fields of a post that a save takes from the editor
Content(p) ==
    [id |-> p.id, title |-> p.title, content |-> p.content, status |-> p.status,
     seoKeywords |-> p.seoKeywords, metaDescription |-> p.metaDescription]

\* C16: when a save has completed, whatever the durable write did (written,
\* success false, thrown, no Electron API), the ephemeral store holds the
\* saved document.
C16_SaveMirrorsIntoEphemeralStore ==
    lastOp.op = "save" =>
        /\ lsPosts.kind = "list"
        /\ \E i \in DOMAIN lsPosts.posts : Content(lsPosts.posts[i]) = Content(currentPost)

C16_Witness ==
    /\ lastOp.op = "save"
    /\ lastOp.outcome \in {"failed", "throws"}
    /\ files = <<>>
    /\ \E i \in DOMAIN lsPosts.posts : Content(lsPosts.posts[i]) = Content(currentPost)

\* No two records of a list have the same id
UniqueIds(list) ==
    \A i \in DOMAIN list : \A j \in DOMAIN list : list[i].id = list[j].id => i = j

\* The names of the files that 'load-blog-posts' turns into a post
DurableNames == {n \in DOMAIN files : EndsWith(n, Text(".md")) /\ FrontmatterMatch(files[n]).matched}

\* C17: the in-memory list, the ephemeral store and the durable directory
\* never hold two records with the same id.
C17_OneRecordPerId ==
    /\ UniqueIds(blogPosts)
    /\ UniqueIds(lsPosts.posts)
    /\ \A n \in DurableNames : \A m \in DurableNames :
          LoadedPost(n, files[n], now).id = LoadedPost(m, files[m], now).id => n = m

\* The number of records of a list with the id
CountId(list, id) == Cardinality({i \in DOMAIN list : list[i].id = id})

\* The clock value of a timestamp text
TimeOf(x) == CHOOSE n \in 0..9 : x = Str(TimeText(n))

\* C18: saving the document of the editor twice in a row, the durable
\* write succeeding, leaves one record of its id in the in-memory list, in
\* the ephemeral store and in the directory; the second save changes no
\* other record and its updatedAt is not earlier than that of the first.
C18_SaveTwice ==
    (~Loading /\ editorPost # NoValue /\ saving = <<>>) =>
        LET post == editorPost
            list1 == UpdatedPosts(blogPosts, post, now)
            files1 == DurableWrite(files, post, IF hasElectron THEN "ok" ELSE "throws")
            list2 == UpdatedPosts(list1, post, now + 1)
            files2 == DurableWrite(files1, post, IF hasElectron THEN "ok" ELSE "throws")
            k == FindIndex(list2, post.id)
            names == {n \in DOMAIN files2 :
                         /\ FrontmatterMatch(files2[n]).matched
                         /\ LoadedPost(n, files2[n], now).id = post.id}
        IN /\ CountId(list2, post.id) = 1
           /\ CountId(StoredItem(list2).posts, post.id) = 1
           /\ hasElectron => Cardinality(names) = 1
           /\ files2 = files1
           /\ Len(list2) = Len(list1)
           /\ \A i \in DOMAIN list2 : i # k => list2[i] = list1[i]
           /\ Content(list2[k]) = Content(list1[k])
           /\ TimeOf(list2[k].updatedAt) >= TimeOf(list1[k].updatedAt)

\* C19: after a save whose durable write succeeded, the updatedAt of the
\* document in the ephemeral list and in its durable file is the time of
\* that save.
C19_UpdatedAtIsTimeOfSave ==
    (lastOp.op = "save" /\ lastOp.outcome = "ok") =>
        LET name == Filename(currentPost)
        IN /\ name \in DOMAIN files
           /\ \E i \in DOMAIN lsPosts.posts :
                 /\ lsPosts.posts[i].id = currentPost.id
                 /\ LoadedPost(name, files[name], now).updatedAt = lsPosts.posts[i].updatedAt

\* C20: delete(id) removes the document from the in-memory list and from
\* the ephemeral store, leaves every document with another id unchanged in
\* both, and closes the editor when the deleted document was the open one.
C20_Delete ==
    ~Loading =>
        \A postId \in {blogPosts[i].id : i \in DOMAIN blogPosts} :
            LET r == DeleteEffect(blogPosts, currentPost, currentView, editorPost, postId)
            IN /\ CountId(r.blogPosts, postId) = 0
               /\ CountId(r.lsPosts.posts, postId) = 0
               /\ r.blogPosts = Without(blogPosts, postId)
               /\ \A i \in DOMAIN lsPosts.posts :
                     lsPosts.posts[i].id # postId =>
                         \E j \in DOMAIN r.lsPosts.posts : r.lsPosts.posts[j] = lsPosts.posts[i]
               /\ (editorPost # NoValue /\ editorPost.id = postId) =>
                     (r.currentView = "dashboard" /\ r.editorPost = NoValue)

\* C21: once delete(id) has been performed, no later load (a run of
\* initializeApp, with the durable store available or not) leaves a
\* document with that id in the list unless saveBlogPost was given it again
\* after the delete.
C21_DeletedStaysDeleted ==
    lastOp.op = "init" =>
        \A i \in DOMAIN blogPosts : blogPosts[i].id.v \notin deleted

\* C28: when delete(id) runs while a saveBlogPost is suspended at the
\* durable-store call, then after the save has finished too the ephemeral
\* store has no document with the deleted id and its list equals the
\* in-memory list.
C28_DeleteDuringPendingSave ==
    (lastOp.op = "delete" /\ Len(saving) = 1) =>
        \A outcome \in {"ok", "failed", "throws"} :
            LET r == FinishSave(saving[1], files, currentView, outcome)
            IN /\ \A k \in DOMAIN r.lsPosts.posts : r.lsPosts.posts[k].id.v # lastOp.id
               /\ r.lsPosts.posts = blogPosts

\* C29: a save of a document that the list already holds leaves the
\* createdAt recorded for it, in the in-memory list and in the ephemeral
\* store, present and equal to the one recorded before, so that after any
\* sequence of saves it is the one of the first save.
C29_CreatedAtIsKept ==
    (~Loading /\ editorPost # NoValue /\ FindIndex(blogPosts, editorPost.id) > 0) =>
        LET k == FindIndex(blogPosts, editorPost.id)
            list2 == UpdatedPosts(blogPosts, editorPost, now)
        IN /\ list2[k].createdAt.t = "string"
           /\ list2[k].createdAt = blogPosts[k].createdAt
           /\ StoredItem(list2).posts[k].createdAt = blogPosts[k].createdAt

\* C30: a document loaded from a file that 'save-blog-post' wrote and saved
\* again without edits is written with identical body and metadata: the
\* save succeeds and the text written is the text that was loaded, so the
\* stored body neither grows nor shrinks over load and save cycles.
C30_LoadSaveIsStable ==
    loaded.done =>
        \A i \in DOMAIN loaded.posts :
            LET p == loaded.posts[i]
                r == SaveBlogPostHandler(files, p, TRUE)
            IN p.filePath.v \in DOMAIN saved =>
                  /\ r.success
                  /\ FrontmatterMatch(r.files[Filename(p)]).postContent
                        = FrontmatterMatch(files[p.filePath.v]).postContent
                  /\ FrontmatterMatch(r.files[Filename(p)]).frontmatter
                        = FrontmatterMatch(files[p.filePath.v]).frontmatter

\* C26: the provider and model of a generation, once resolved at its
\* start, do not change while it runs: a new health snapshot, a new model
\* list, another selected provider or another stored preference leave them
\* as they are, and they change only when a generation is started, to the
\* values resolved from the state of that moment.
C26_InFlightKeepsResolution ==
    [][gen' # gen =>
          \E template \in {"", "blog"} :
              gen' = Resolution(selectedAiProvider, aiStatus, aiModels, template)]_vars

\* A generation is running with an ollama model while the selection, the
\* availability and the stored preference have all moved on
C26_Witness ==
    /\ gen.request # "none"
    /\ gen.provider = "ollama"
    /\ selectedAiProvider = "openai"
    /\ ~aiStatus.ollama_available
    /\ localStorage.ollama # gen.model
    /\ localStorage.ollama # ""

\* C25: provisioning the content directory when it already exists changes
\* nothing: at startup and on get-content-directory the directory and every
\* file stay as they are and the request does not fail, whatever the disk
\* would answer; on save no file other than the saved document's is created
\* or rewritten.
C25_ProvisioningIsIdempotent ==
    contentDir =>
        /\ \A disk \in DiskOutcomes :
              /\ EnsureContentDirectory(contentDir, files, disk)
                    = [dir |-> TRUE, files |-> files, outcome |-> "existed"]
              /\ GetContentDirectory(contentDir, files, disk)
                    = [dir |-> TRUE, files |-> files, success |-> TRUE]
        /\ \A post \in ProvisionDocs :
              LET r == SaveOnDirectory(contentDir, files, post, "ok")
              IN /\ r.dir /\ r.success
                 /\ DOMAIN r.files = DOMAIN files \cup {Filename(post)}
                 /\ \A n \in DOMAIN files \ {Filename(post)} : r.files[n] = files[n]

\* ensureContentDirectory has just run on a directory that existed, held a
\* document and had no README.md
C25_Witness ==
    /\ contentDir
    /\ lastOp = [op |-> "ensure", id |-> <<>>, outcome |-> "existed"]
    /\ Readme.name \notin DOMAIN files
    /\ files # <<>>

\* C24: a blocking generation maps each cause of failure to its own
\* outcome: a refused connection gives the 'service not running' error, a
\* timeout gives a timeout error that the editor reports as 'timed out', a
\* response outside 2xx gives an error carrying the detail of the backend,
\* a body with success false is raised with its error string; and two
\* answers with different causes never give the same error.
C24_EachCauseItsOwnOutcome ==
    call.pc = "done" /\ call.answer.cause # "success" =>
        /\ call.answer.cause = "refused" =>
              /\ Contains(call.error, Text("AI service is not running"))
              /\ Contains(call.alert, Text("AI service is not running"))
        /\ call.answer.cause = "timeout" =>
              /\ Contains(call.error, Text("timeout"))
              /\ call.alert = Text("AI generation timed out. Try a shorter prompt or check your connection.")
        /\ (call.answer.cause \in {"status", "failure"} /\ call.answer.detail # <<>>) =>
              call.error = call.answer.detail
        /\ \A b \in Answers :
              (b.cause \notin {"success", call.answer.cause}) =>
                  GenerateError(call.method.name, b) # call.error

\* The text the onChunk invocations of `ev` add up to
RECURSIVE Accumulated(_)
Accumulated(ev) ==
    IF ev = <<>> THEN <<>>
    ELSE (IF Head(ev).cb = "onChunk" THEN Chars(Head(ev).arg) ELSE <<>>)
         \o Accumulated(Tail(ev))

\* The templated stream has ended by a done frame or by transport close,
\* without an error, and the editor is still mounted
BlogStreamEnded ==
    /\ pc = "settled"
    /\ exitPath \in {"return", "close"}
    /\ Count(events, "onError") = 0
    /\ ~abandoned

\* C22: when a templated stream has ended (done frame or transport close)
\* and its accumulated text is not valid JSON, the body of the edited
\* document is the raw accumulated text and its title is the topic.
C22_RawTextWhenNotJSON ==
    (BlogStreamEnded /\ ~ParseBlog(Accumulated(events)).ok) =>
        /\ EditorAfter(events, EditorStart).content = Accumulated(events)
        /\ EditorAfter(events, EditorStart).title = Topic

\* C27: when a templated stream has ended with a done frame and its
\* accumulated text is valid JSON, the title and body of the edited document
\* are the title and content of that JSON, and the completion handler has
\* taken effect once.
C27_BlogJsonBecomesThePost ==
    (BlogStreamEnded /\ exitPath = "return" /\ ParseBlog(Accumulated(events)).ok) =>
        /\ EditorAfter(events, EditorStart).title = ParseBlog(Accumulated(events)).title
        /\ EditorAfter(events, EditorStart).content = ParseBlog(Accumulated(events)).content
        /\ Count(events, "onComplete") = 1

\* C23: auto-save is debounced: after a burst of edits the timer issues a
\* single save, and once it has been issued no further save is triggered
\* until the document is edited again.
C23_OneAutoSavePerEdit ==
    autosaves <= 1

====
